---- MODULE Spec2Model ----
(***************************************************************************)
(* otel-cloudflare: span engine, context propagation, collector, exporter  *)
(* and instrumentation adapters, as a state machine.                       *)
(*                                                                         *)
(* Identifiers (trace ids, span ids) are modelled by naturals handed out   *)
(* by counters: generateTraceId / generateSpanId draw 128 / 64 random bits *)
(* and a collision is not modelled.  0 stands for "undefined".             *)
(***************************************************************************)
EXTENDS Integers, Sequences, FiniteSets, TLC

\* ------------------------------------------------------------------ bounds
\* The wall clock (Date.now()) runs from 0 to MaxTime.
MaxTime == 2
\* Effective mutator calls made on one span before it ends.
MaxMutations == 1
\* Spans the interleaved invocations may start.
MaxActiveSpans == 2
\* Executions (first run and replays) of one workflow instance.
MaxExecutions == 2
\* Step calls the executions of one workflow instance make.
MaxStepCalls == 2
\* Log entries the handlers emit themselves.
MaxLogs == 1
\* SimpleSpanProcessor instances that may be constructed.
MaxProcs == 2
\* Calls of a tracing wrapper (withTrace, tracedFetch, wrapQueue) in a run.
MaxWraps == 1

VARIABLES
    spans,                \* every CloudflareSpan constructed so far, by handle
    onEndCalls,           \* per span handle: calls of SpanProcessor.onEnd(span)
    activeSpanProcessor,  \* provider.ts: the registered processor (0: null)
    procSpans,            \* per SimpleSpanProcessor instance: its spans array
    now,                  \* Date.now()
    lastIgnored,          \* the last kind of call made on an ended span
    ids,                  \* how many trace ids and span ids were generated
    stack,                \* per invocation: the context.with extents it is in
    calls,                \* per span handle: the startActiveSpan call it is of
    payload,              \* event.payload._traceparent of the workflow instance
    durable,              \* the persisted result of step '__trace_init'
    wf,                   \* the execution of the traced run in progress
    obtained,             \* the traceparent each execution of run obtained
    stepOf,               \* per step span: the call and execution it is of
    target,               \* the calls the engine's step received, this execution
    inv,                  \* per invocation: the adapter call it is in
    flushing,             \* per invocation: its flush in progress
    logs,                 \* the OTLP log handler, its buffer, the logs emitted
    exported,             \* the export requests sent so far
    removed,              \* the buffered items removed so far, and by whom
    dropped,              \* the items whose export attempt failed
    configured,           \* whether initOTLP resolved an exporter config
    env,                  \* the environment bindings of the isolate
    opts,                 \* the options instrument() was given
    globalFetch,          \* globalThis.fetch
    originalFetch,        \* fetch.ts: the fetch saved by patchGlobalFetch
    wraps,                \* the calls of the tracing wrappers, in order
    applied               \* the library function applied, its input and result

spanVars == <<spans, onEndCalls, activeSpanProcessor, procSpans, now,
              lastIgnored, ids>>
tracerVars == <<stack, calls>>
workflowVars == <<payload, durable, wf, obtained, stepOf, target>>
adapterVars == <<inv, flushing, logs, exported, removed, dropped, configured>>
configVars == <<env, opts>>
fetchVars == <<globalFetch, originalFetch>>
wrapVars == <<wraps>>
applyVars == <<applied>>
vars == <<spanVars, tracerVars, workflowVars, adapterVars, configVars,
         fetchVars, wrapVars, applyVars>>

\* What the span object's own specification leaves alone.
notSpan == <<tracerVars, workflowVars, adapterVars, configVars, fetchVars,
            wrapVars, applyVars>>
\* What the tracer's specification leaves alone.
notTracer == <<workflowVars, adapterVars, configVars, fetchVars, wrapVars,
              applyVars>>
\* What the workflow's specification leaves alone.
notWorkflow == <<tracerVars, adapterVars, configVars, fetchVars, wrapVars,
                applyVars>>
\* What the adapters' specification leaves alone.
notAdapter == <<calls, workflowVars, configVars, wrapVars, applyVars>>

\* ------------------------------------------------------------ span engine

UNSET == "UNSET"
OK == "OK"
ERROR == "ERROR"
StatusCodes == {UNSET, OK, ERROR}

INTERNAL == "INTERNAL"
SERVER == "SERVER"
CLIENT == "CLIENT"
PRODUCER == "PRODUCER"
CONSUMER == "CONSUMER"

\* TimeInput: undefined, a number of milliseconds, a Date, an HrTime pair.
NoTime == [form |-> "undefined", ms |-> 0]
TimeInputs == {NoTime} \cup
    [form : {"number", "date", "hrtime"}, ms : {MaxTime}]

\* CloudflareSpan._timeInputToMs and the same branches inlined in addEvent.
TimeInputToMs(time, clock) ==
    IF time.form = "undefined" THEN clock ELSE time.ms

\* The branches of CloudflareSpan.end: a number, a Date, otherwise Date.now().
EndTimeOf(time, clock) ==
    IF time.form = "number" THEN time.ms
    ELSE IF time.form = "date" THEN time.ms
    ELSE clock

\* new CloudflareSpan(name, spanContext, kind, parentSpanId, startTime).
CloudflareSpan(name, traceId, spanId, kind, parentSpanId, clock, owner) ==
    [ name |-> name, traceId |-> traceId, spanId |-> spanId, kind |-> kind,
      parentSpanId |-> parentSpanId, startTime |-> clock, endTime |-> -1,
      ended |-> FALSE, status |-> UNSET, attributes |-> {}, events |-> <<>>,
      links |-> 0, owner |-> owner ]

setAttribute(s, key) ==
    IF s.ended THEN s ELSE [s EXCEPT !.attributes = @ \cup {key}]

setAttributes(s, keys) ==
    IF s.ended THEN s ELSE [s EXCEPT !.attributes = @ \cup keys]

addEvent(s, name, time, clock) ==
    IF s.ended THEN s
    ELSE [s EXCEPT !.events =
             Append(@, [name |-> name, timestamp |-> TimeInputToMs(time, clock)])]

addLink(s) ==
    IF s.ended THEN s ELSE [s EXCEPT !.links = @ + 1]

addLinks(s, n) ==
    IF s.ended THEN s ELSE [s EXCEPT !.links = @ + n]

\* setStatus without its "if (this._ended) return this".
setStatus_NoEndedCheck(s, code) ==
    [s EXCEPT !.status = code]

setStatus(s, code) ==
    IF s.ended THEN s ELSE [s EXCEPT !.status = code]

updateName(s, name) ==
    IF s.ended THEN s ELSE [s EXCEPT !.name = name]

recordException(s, time, clock) ==
    IF s.ended THEN s ELSE addEvent(s, "exception", time, clock)

\* The span record after CloudflareSpan.end(endTime).
endSpan(s, time, clock) ==
    IF s.ended THEN s
    ELSE [s EXCEPT !.ended = TRUE, !.endTime = EndTimeOf(time, clock)]

\* Whether this end() call reaches "activeSpanProcessor.onEnd(this)".
NotifiesProcessor(s, processor) == ~s.ended /\ processor # 0

\* SimpleSpanProcessor.onEnd: this.spans.push(span).
onEnd(bufs, processor, h) ==
    [bufs EXCEPT ![processor] = Append(@, h)]

Handles == 1..Len(spans)

HasException(s) == \E k \in 1..Len(s.events) : s.events[k].name = "exception"

\* The part of the state a call on a span reads and may change.
Heap == [spans |-> spans, procSpans |-> procSpans, onEndCalls |-> onEndCalls,
         active |-> activeSpanProcessor]

\* end() without its "if (this._ended) return".
SpanEnd_NoEndedCheck(H, h, time) ==
    [ spans |-> [H.spans EXCEPT ![h] =
                   [@ EXCEPT !.ended = TRUE, !.endTime = EndTimeOf(time, now)]],
      procSpans |-> IF H.active # 0
                      THEN onEnd(H.procSpans, H.active, h)
                      ELSE H.procSpans,
      onEndCalls |-> IF H.active # 0
                       THEN [H.onEndCalls EXCEPT ![h] = @ + 1]
                       ELSE H.onEndCalls,
      active |-> H.active ]

\* CloudflareSpan.end(endTime) on span h, in heap H.
SpanEnd(H, h, time) ==
    LET s == H.spans[h]
        notify == NotifiesProcessor(s, H.active)
    IN  [ spans |-> [H.spans EXCEPT ![h] = endSpan(s, time, now)],
          procSpans |-> IF notify
                          THEN onEnd(H.procSpans, H.active, h)
                          ELSE H.procSpans,
          onEndCalls |-> IF notify
                           THEN [H.onEndCalls EXCEPT ![h] = @ + 1]
                           ELSE H.onEndCalls,
          active |-> H.active ]

\* A mutator call on span h, in heap H.
SpanSet(H, h, s) == [H EXCEPT !.spans[h] = s]

\* generateTraceId() / generateSpanId(): the next unused id.
FreshTraceId == ids.trace + 1
FreshSpanId == ids.span + 1

\* An active context: the span context of the active span (h: its handle, 0
\* for a non-recording span wrapping a remote context), or ROOT_CONTEXT.
ROOT_CONTEXT == [has |-> FALSE, traceId |-> 0, spanId |-> 0, h |-> 0]
HasSpan(ctx) == ctx.has

\* startSpan taking the trace of its parent but not recording the parent.
startSpan_NoParentSpanId(name, kind, parentContext, owner) ==
    CloudflareSpan(name,
                   IF HasSpan(parentContext) THEN parentContext.traceId
                                             ELSE FreshTraceId,
                   FreshSpanId, kind, 0, now, owner)

\* CloudflareTracer.startSpan(name, {kind}, parentContext): the new span.
startSpan(name, kind, parentContext, owner) ==
    CloudflareSpan(name,
                   IF HasSpan(parentContext) THEN parentContext.traceId
                                             ELSE FreshTraceId,
                   FreshSpanId, kind,
                   IF HasSpan(parentContext) THEN parentContext.spanId ELSE 0,
                   now, owner)

\* The id counters after startSpan under parentContext.
idsAfterStartSpan(parentContext) ==
    [ trace |-> IF HasSpan(parentContext) THEN ids.trace ELSE ids.trace + 1,
      span |-> ids.span + 1 ]

\* trace.setSpan(ctx, span): the context with span h active.
ContextOf(h, s) ==
    [has |-> TRUE, traceId |-> s.traceId, spanId |-> s.spanId, h |-> h]

\* A traceparent string is the sequence of its '-'-separated parts; a part
\* is its length, whether it is all hex digits, and its value.
HexPart(len, val) == [len |-> len, hex |-> TRUE, val |-> val]

\* toTraceparent putting the two ids the other way round.
toTraceparent_IdsSwapped(ctx) ==
    <<HexPart(2, 0), HexPart(32, ctx.spanId), HexPart(16, ctx.traceId),
      HexPart(2, 1)>>

\* toTraceparent(ctx): `00-${traceId}-${spanId}-01`.
toTraceparent(ctx) ==
    <<HexPart(2, 0), HexPart(32, ctx.traceId), HexPart(16, ctx.spanId),
      HexPart(2, 1)>>

\* What parseTraceparent returns for a string it rejects: null.
NullPart == [len |-> 0, hex |-> FALSE, val |-> 0]
NullTraceContext ==
    [ok |-> FALSE, version |-> NullPart, traceId |-> 0, spanId |-> 0,
     flags |-> NullPart]

\* The TraceContext { version, traceId, spanId, flags } of the parts of w.
TraceContextOf(w) ==
    [ok |-> TRUE, version |-> w[1], traceId |-> w[2].val, spanId |-> w[3].val,
     flags |-> w[4]]

\* parseTraceparent without the checks of the lengths of the two ids.
parseTraceparent_NoLengthCheck(w) ==
    IF Len(w) # 4 THEN NullTraceContext
    ELSE IF ~(w[1].len = 2 /\ w[1].hex /\ w[1].val = 0) THEN NullTraceContext
    ELSE IF ~w[2].hex \/ ~w[3].hex THEN NullTraceContext
    ELSE TraceContextOf(w)

\* parseTraceparent accepting any two-digit version.
parseTraceparent_AnyVersion(w) ==
    IF Len(w) # 4 THEN NullTraceContext
    ELSE IF ~(w[1].len = 2 /\ w[1].hex) THEN NullTraceContext
    ELSE IF w[2].len # 32 \/ ~w[2].hex THEN NullTraceContext
    ELSE IF w[3].len # 16 \/ ~w[3].hex THEN NullTraceContext
    ELSE IF w[4].len # 2 \/ ~w[4].hex THEN NullTraceContext
    ELSE TraceContextOf(w)

\* parseTraceparent(traceparent): the trace context, or null (ok = FALSE).
parseTraceparent(w) ==
    IF Len(w) # 4 THEN NullTraceContext
    ELSE IF ~(w[1].len = 2 /\ w[1].hex /\ w[1].val = 0) THEN NullTraceContext
    ELSE IF w[2].len # 32 \/ ~w[2].hex THEN NullTraceContext
    ELSE IF w[3].len # 16 \/ ~w[3].hex THEN NullTraceContext
    ELSE IF w[4].len # 2 \/ ~w[4].hex THEN NullTraceContext
    ELSE TraceContextOf(w)

\* spanContextFromTraceparent(traceparent) wrapped by trace.wrapSpanContext
\* and trace.setSpan: the remote parent's context, or none.
spanContextFromTraceparent(w) ==
    LET parsed == parseTraceparent(w)
    IN  IF parsed.ok
          THEN [has |-> TRUE, traceId |-> parsed.traceId,
                spanId |-> parsed.spanId, h |-> 0]
          ELSE ROOT_CONTEXT

\* Invocations interleaved on the one event loop.
Inv == {"A", "B"}

\* event.payload._traceparent: undefined, or a string.
Absent == <<>>
EmptyString == << [len |-> 0, hex |-> FALSE, val |-> 0] >>
Truthy(w) == w # Absent /\ w # EmptyString

\* No workflow instance exists.
NoWorkflow ==
    /\ payload = Absent
    /\ durable = [has |-> FALSE, value |-> Absent]
    /\ wf = [phase |-> "idle", traceparent |-> Absent, exec |-> 0,
             generated |-> 0]
    /\ obtained = <<>>
    /\ stepOf = <<>>
    /\ target = <<>>

\* No span: the adapter started none.
NoSpan == CloudflareSpan("none", 0, 0, INTERNAL, 0, 0, "none")

\* An invocation no adapter has been entered for, and no flush.
\* options.ignoreUrls: not given.
NoIgnoreUrls == [given |-> FALSE, list |-> <<>>]
NoRequest == [traceparent |-> Absent, batch |-> <<>>, path |-> "/",
              ignoreUrls |-> NoIgnoreUrls]
NoResponse == [kind |-> "none", status |-> 0, bodyTraceId |-> 0,
               traceparent |-> Absent, error |-> "none"]
IdleInvocation ==
    [adapter |-> "none", phase |-> "idle", ignored |-> FALSE, how |-> "none",
     processor |-> 0, span |-> 0, flushes |-> 0, req |-> NoRequest,
     traceparent |-> Absent, response |-> NoResponse]
NoFlush == [fn |-> "none", state |-> "none", parts |-> {}, processor |-> 0,
            failed |-> {}, sent |-> {}]

\* An environment variable that is not set.
Undefined == "undefined"
IsSet(v) == v # Undefined /\ v # ""

\* OTEL_EXPORTER_OTLP_HEADERS as "key=value"; NoHeaders when it is not set.
NoHeaders == [key |-> "", value |-> ""]

\* env: OTEL_EXPORTER_OTLP_ENDPOINT, OTEL_EXPORTER_OTLP_HEADERS,
\* GRAFANA_INSTANCE_ID, GRAFANA_OTLP_TOKEN.
EmptyEnv == [endpoint |-> Undefined, headers |-> NoHeaders,
             instanceId |-> Undefined, token |-> Undefined]
GrafanaEnv == [endpoint |-> "https://otlp.example", headers |-> NoHeaders,
               instanceId |-> "1234", token |-> "glc_token"]

\* instrument(handler) with no options: export is not disabled and no
\* exporter config is given.
NoOptions == [disableExport |-> FALSE, exporter |-> FALSE]

\* A fetch function is the stack of tracedFetch wrappers around the fetch of
\* the runtime; NoFetch is null.
NativeFetch == <<"native">>
NoFetch == <<>>

\* tracedFetch(baseFetch): the wrapper that starts a CLIENT span and calls
\* baseFetch.
tracedFetch(baseFetch) == <<"traced">> \o baseFetch

\* The CLIENT spans a call of fetch function f starts.
ClientSpansOf(f) == Cardinality({k \in 1..Len(f) : f[k] = "traced"})

\* No adapter has run: nothing is registered with the logger.
\* No library function has been applied on its own.
NoApplication == [fn |-> "none"]

NoAdapter ==
    /\ inv = [i \in Inv |-> IdleInvocation]
    /\ flushing = [i \in Inv |-> NoFlush]
    /\ logs = [handler |-> FALSE, buf |-> <<>>, all |-> <<>>]
    /\ exported = {}
    /\ removed = {}
    /\ dropped = {}
    /\ configured = FALSE
    /\ env = EmptyEnv
    /\ opts = NoOptions
    /\ globalFetch = NativeFetch
    /\ originalFetch = NoFetch
    /\ wraps = <<>>

\* -------------------------------------------- the span object on its own

SpanInit ==
    /\ spans = <<>>
    /\ onEndCalls = <<>>
    /\ activeSpanProcessor = 0
    /\ procSpans = <<>>
    /\ now = 0
    /\ lastIgnored = "none"
    /\ ids = [trace |-> 0, span |-> 0]
    /\ stack = [i \in Inv |-> <<>>]
    /\ calls = <<>>
    /\ NoWorkflow
    /\ NoAdapter
    /\ applied = NoApplication

\* tracer.startSpan(name) with no active span.  Span objects share no state
\* but the registered processor: this specification follows one of them.
TracerStartSpan ==
    /\ spans = <<>>
    /\ spans' = Append(spans, startSpan("op", INTERNAL, ROOT_CONTEXT, "main"))
    /\ ids' = idsAfterStartSpan(ROOT_CONTEXT)
    /\ onEndCalls' = Append(onEndCalls, 0)
    /\ UNCHANGED <<activeSpanProcessor, procSpans, now, lastIgnored>>
    /\ UNCHANGED notSpan

MutatorNames == {"setAttribute", "setAttributes", "addEvent", "addLink",
                 "addLinks", "setStatus", "updateName", "recordException"}

\* The mutators that take a time input.
TimedMutators == {"addEvent", "recordException"}

\* The span after the named mutator is called on it.
Mutated(s, op, time) ==
    CASE op = "setAttribute" -> setAttribute(s, "k1")
      [] op = "setAttributes" -> setAttributes(s, {"k1", "k2"})
      [] op = "addEvent" -> addEvent(s, "event", time, now)
      [] op = "addLink" -> addLink(s)
      [] op = "addLinks" -> addLinks(s, 2)
      [] op = "setStatus" -> setStatus(s, OK)
      [] op = "updateName" -> updateName(s, "renamed")
      [] op = "recordException" -> recordException(s, time, now)

\* The effective mutator calls a span has seen.
Mutations(s) ==
    Cardinality(s.attributes) + Len(s.events) + s.links
      + (IF s.name = "renamed" THEN 1 ELSE 0)
      + (IF s.status = UNSET THEN 0 ELSE 1)

\* A holder of span h calls one of its mutators.
SpanMutate(h, op, time) ==
    /\ op \in TimedMutators \/ time = NoTime
    /\ spans[h].ended \/ Mutations(spans[h]) < MaxMutations
    /\ spans' = [spans EXCEPT ![h] = Mutated(spans[h], op, time)]
    /\ lastIgnored' = IF spans[h].ended THEN "mutator" ELSE lastIgnored
    /\ UNCHANGED <<onEndCalls, activeSpanProcessor, procSpans, now, ids>>
    /\ UNCHANGED notSpan

\* A holder of span h calls span.end(time).
SpanEndCall(h, time) ==
    /\ LET H == SpanEnd(Heap, h, time)
       IN  /\ spans' = H.spans
           /\ procSpans' = H.procSpans
           /\ onEndCalls' = H.onEndCalls
    /\ lastIgnored' = IF spans[h].ended THEN "end" ELSE lastIgnored
    /\ UNCHANGED <<activeSpanProcessor, now, ids>>
    /\ UNCHANGED notSpan

\* setSpanProcessor(new SimpleSpanProcessor()), or (null).
SetSpanProcessor(fresh) ==
    /\ IF fresh
         THEN /\ Len(procSpans) < MaxProcs
              /\ procSpans' = Append(procSpans, <<>>)
              /\ activeSpanProcessor' = Len(procSpans) + 1
         ELSE /\ activeSpanProcessor # 0
              /\ activeSpanProcessor' = 0
              /\ UNCHANGED procSpans
    /\ UNCHANGED <<spans, onEndCalls, now, lastIgnored, ids>>
    /\ UNCHANGED notSpan

\* Time passes.
Tick ==
    /\ now < MaxTime
    /\ now' = now + 1
    /\ UNCHANGED <<spans, onEndCalls, activeSpanProcessor, procSpans,
                   lastIgnored, ids>>
    /\ UNCHANGED notSpan

SpanNext ==
    \/ TracerStartSpan
    \/ \E h \in Handles, op \in MutatorNames, t \in TimeInputs :
          SpanMutate(h, op, t)
    \/ \E h \in Handles, t \in TimeInputs : SpanEndCall(h, t)
    \/ \E fresh \in BOOLEAN : SetSpanProcessor(fresh)
    \/ Tick

SpecSpan == SpanInit /\ [][SpanNext]_vars

\* C5: once a span has ended, no step (in particular no call of setAttribute,
\* setAttributes, addEvent, addLink, addLinks, setStatus, updateName or
\* recordException, in any number and order) changes its name, attributes,
\* events, links, status or endTime.
C5_MutatorsAfterEndChangeNothing ==
    [][\A h \in Handles :
          spans[h].ended =>
            /\ spans'[h].name = spans[h].name
            /\ spans'[h].attributes = spans[h].attributes
            /\ spans'[h].events = spans[h].events
            /\ spans'[h].links = spans[h].links
            /\ spans'[h].status = spans[h].status
            /\ spans'[h].endTime = spans[h].endTime]_vars

\* A mutator was called on an ended span that had been mutated while live.
C5_MutatorCalledAfterEnd ==
    /\ lastIgnored = "mutator"
    /\ \E h \in Handles : spans[h].ended /\ Mutations(spans[h]) > 0

\* C6: whatever the sequence of end() calls on a span, the registered
\* processor's onEnd runs for it at most once, and an end() call on an ended
\* span leaves its endTime alone.
C6_EndNotifiesAtMostOnce ==
    /\ [](\A h \in Handles : onEndCalls[h] <= 1)
    /\ [][\A h \in Handles :
            spans[h].ended => /\ spans'[h].endTime = spans[h].endTime
                              /\ onEndCalls'[h] = onEndCalls[h]]_vars

\* end() was called again, later than the first end(), on a span whose first
\* end() reached a processor that is still registered.
C6_EndCalledAgain ==
    /\ lastIgnored = "end"
    /\ activeSpanProcessor # 0
    /\ \E h \in Handles : /\ spans[h].ended
                           /\ onEndCalls[h] = 1
                           /\ spans[h].endTime < now

\* ------------------------------- the tracer and the context manager (ALS)

\* active() reading one store shared by the invocations: the extent that
\* was opened last, whoever opened it.
ActiveContext_SharedStore(i) ==
    LET tops == {stack[j][Len(stack[j])].ctx : j \in {k \in Inv : stack[k] # <<>>}}
    IN  IF tops = {} THEN ROOT_CONTEXT
        ELSE CHOOSE c \in tops : \A d \in tops : d.h <= c.h

\* AsyncLocalStorageContextManager.active(): the store of the running
\* invocation's asynchronous chain, or ROOT_CONTEXT.  contextStorage.run(ctx,
\* fn) opens an extent of the caller's chain; stack[i] holds i's open extents.
ActiveContext(i) ==
    IF stack[i] = <<>> THEN ROOT_CONTEXT ELSE stack[i][Len(stack[i])].ctx

\* getTraceparent(): the wire form of the active span, or null (<<>>).
getTraceparent(i) ==
    IF HasSpan(ActiveContext(i)) THEN toTraceparent(ActiveContext(i)) ELSE <<>>

Outcomes == {"returns", "resolves", "rejects", "throws"}
Failure(how) == how \in {"rejects", "throws"}

\* startActiveSpan whose failure branches leave out span.end().
SettleActiveSpan_NoEndOnFailure(H, h, how) ==
    IF Failure(how)
      THEN LET H1 == SpanSet(H, h, recordException(H.spans[h], NoTime, now))
           IN  SpanSet(H1, h, setStatus(H1.spans[h], ERROR))
      ELSE SpanEnd(H, h, NoTime)

\* The four branches of startActiveSpan's callback around fn(span): the heap
\* once fn has settled the way `how` says.
SettleActiveSpan(H, h, how) ==
    IF Failure(how)
      THEN LET H1 == SpanSet(H, h, recordException(H.spans[h], NoTime, now))
               H2 == SpanSet(H1, h, setStatus(H1.spans[h], ERROR))
           IN  SpanEnd(H2, h, NoTime)
      ELSE SpanEnd(H, h, NoTime)

\* What startActiveSpan hands its caller once fn has settled.
SettleResult(how) == IF Failure(how) THEN "error" ELSE "value"

Pending == [state |-> "pending", how |-> "none", result |-> "none",
            endedByFn |-> FALSE]

TracerInit ==
    /\ spans = <<>>
    /\ onEndCalls = <<>>
    /\ activeSpanProcessor = 1
    /\ procSpans = << <<>> >>
    /\ now = 0
    /\ lastIgnored = "none"
    /\ ids = [trace |-> 0, span |-> 0]
    /\ stack = [i \in Inv |-> <<>>]
    /\ calls = <<>>
    /\ NoWorkflow
    /\ NoAdapter
    /\ applied = NoApplication

\* tracer.startActiveSpan(name, options, [ctx,] fn) up to the call of fn:
\* ctx is ROOT_CONTEXT when explicitRoot, and absent otherwise.
StartActiveSpan(i, explicitRoot) ==
    /\ Len(spans) < MaxActiveSpans
    /\ LET parentContext == IF explicitRoot THEN ROOT_CONTEXT
                                            ELSE ActiveContext(i)
           span == startSpan("op", INTERNAL, parentContext, i)
           h == Len(spans) + 1
       IN  /\ spans' = Append(spans, span)
           /\ ids' = idsAfterStartSpan(parentContext)
           /\ stack' = [stack EXCEPT ![i] =
                 Append(@, [ctx |-> ContextOf(h, span), span |-> h,
                            explicit |-> explicitRoot])]
    /\ onEndCalls' = Append(onEndCalls, 0)
    /\ calls' = Append(calls, Pending)
    /\ UNCHANGED <<activeSpanProcessor, procSpans, now, lastIgnored>>
    /\ UNCHANGED notTracer

FnOps == {"end", "setStatus"}

\* fn, running in invocation i, calls a method of the span it was handed.
FnCallsSpan(i, op) ==
    /\ stack[i] # <<>>
    /\ LET h == stack[i][Len(stack[i])].span
           s == spans[h]
           H == IF op = "end" THEN SpanEnd(Heap, h, NoTime)
                               ELSE SpanSet(Heap, h, setStatus(s, OK))
       IN  /\ ~s.ended
           /\ op = "setStatus" => s.status = UNSET
           /\ spans' = H.spans
           /\ procSpans' = H.procSpans
           /\ onEndCalls' = H.onEndCalls
    /\ UNCHANGED <<activeSpanProcessor, now, lastIgnored, ids, stack, calls>>
    /\ UNCHANGED notTracer

\* A context manager that leaves the context of a failed fn active.
RunExit_KeptOnFailure(frames, how) ==
    IF Failure(how) THEN frames ELSE SubSeq(frames, 1, Len(frames) - 1)

\* contextStorage.run(ctx, fn) once fn is over: the store is the one of
\* before the call, however fn settled.
RunExit(frames, how) == SubSeq(frames, 1, Len(frames) - 1)

\* fn settles in invocation i: the callback of startActiveSpan ends the span
\* and hands the value or the error on; the extent of context.with closes.
FnSettles(i, how) ==
    /\ stack[i] # <<>>
    /\ LET h == stack[i][Len(stack[i])].span
           H == SettleActiveSpan(Heap, h, how)
       IN  /\ spans' = H.spans
           /\ procSpans' = H.procSpans
           /\ onEndCalls' = H.onEndCalls
           /\ calls' = [calls EXCEPT ![h] =
                 [state |-> "settled", how |-> how,
                  result |-> SettleResult(how),
                  endedByFn |-> spans[h].ended]]
    /\ stack' = [stack EXCEPT ![i] = RunExit(@, how)]
    /\ UNCHANGED <<activeSpanProcessor, now, lastIgnored, ids>>
    /\ UNCHANGED notTracer

TracerNext ==
    \/ \E i \in Inv, explicitRoot \in BOOLEAN : StartActiveSpan(i, explicitRoot)
    \/ \E i \in Inv, op \in FnOps : FnCallsSpan(i, op)
    \/ \E i \in Inv, how \in Outcomes : FnSettles(i, how)

SpecTracer == TracerInit /\ [][TracerNext]_vars

Settled(h) == calls[h].state = "settled"

\* C1 as stated: once fn has settled the span is ended and was handed to the
\* processor exactly once; when fn rejected or threw, the ended span carries
\* an 'exception' event and status ERROR and the caller gets the error.
C1_SettledSpanEndedOnceWithError ==
    \A h \in Handles :
        Settled(h) =>
          /\ spans[h].ended
          /\ onEndCalls[h] = 1
          /\ Failure(calls[h].how) =>
                /\ HasException(spans[h])
                /\ spans[h].status = ERROR
                /\ calls[h].result = "error"

\* C1, amended: once fn has settled the span is ended and was handed to the
\* processor exactly once, the caller gets the error when fn rejected or
\* threw and the value otherwise; the ended span carries an 'exception' event
\* and status ERROR when fn rejected or threw without having ended the span
\* itself.
C1_SettledSpanEndedOnce ==
    \A h \in Handles :
        /\ onEndCalls[h] <= 1
        /\ Settled(h) =>
              /\ spans[h].ended
              /\ onEndCalls[h] = 1
              /\ calls[h].result = (IF calls[h].how \in {"rejects", "throws"}
                                      THEN "error" ELSE "value")
              /\ (calls[h].how \in {"rejects", "throws"} /\ ~calls[h].endedByFn) =>
                    /\ HasException(spans[h])
                    /\ spans[h].status = ERROR

\* One call whose fn rejected with the span still live, which left the span
\* with status ERROR, and one whose fn ended the span and then threw.
C1_FailuresSettled ==
    \E h1, h2 \in Handles :
        /\ Settled(h1) /\ calls[h1].how = "rejects" /\ ~calls[h1].endedByFn
        /\ spans[h1].status = ERROR
        /\ Settled(h2) /\ calls[h2].how = "throws" /\ calls[h2].endedByFn

\* C2: whatever the interleaving, the active span an invocation's lookup
\* returns (trace.getSpan(context.active()), getTraceparent) is one that
\* this invocation made active, never one of the other invocation.
C2_ActiveSpanIsOwn ==
    \A i \in Inv :
        /\ ActiveContext(i).h # 0 => spans[ActiveContext(i).h].owner = i
        /\ getTraceparent(i) # <<>> =>
              \A h \in Handles :
                  spans[h].spanId = getTraceparent(i)[3].val => spans[h].owner = i

\* Both invocations are inside a startActiveSpan callback at once.
C2_BothInvocationsActive ==
    /\ \A i \in Inv : HasSpan(ActiveContext(i))
    /\ ActiveContext("A").h # ActiveContext("B").h

\* The spans generated before span h.
Earlier(h) == 1..(h - 1)

\* C7: a span started inside the callback of another startActiveSpan has the
\* enclosing active span's spanId as parentSpanId and its traceId; a span
\* started with no active span has no parentSpanId and a traceId no earlier
\* span has.
C7_NestedSpanIsChildOfEnclosing ==
    \A i \in Inv : \A k \in 1..Len(stack[i]) :
        LET f == stack[i][k]
            s == spans[f.span]
        IN  IF k > 1 /\ ~f.explicit
              THEN /\ s.parentSpanId = spans[stack[i][k - 1].span].spanId
                   /\ s.traceId = spans[stack[i][k - 1].span].traceId
              ELSE /\ s.parentSpanId = 0
                   /\ \A e \in Earlier(f.span) : spans[e].traceId # s.traceId

\* A callback is running inside the callback of another startActiveSpan.
C7_NestedCallback ==
    \E i \in Inv : /\ Len(stack[i]) = 2
                    /\ ~stack[i][2].explicit
                    /\ spans[stack[i][2].span].parentSpanId # 0
\* ------------------------------------------------- traced workflow runs

\* SimpleSpanProcessor.clear(): this.spans = [].
clear(bufs, processor) == [bufs EXCEPT ![processor] = <<>>]

\* The _traceparent values an instance's payload may carry: none, an empty
\* string, text without a '-', a traceparent of a caller, one of version
\* "01", one whose trace id is a digit short.
CallerTraceparent ==
    <<HexPart(2, 0), HexPart(32, 90), HexPart(16, 91), HexPart(2, 1)>>
Payloads ==
    { Absent, EmptyString, << [len |-> 7, hex |-> FALSE, val |-> 0] >>,
      CallerTraceparent,
      <<HexPart(2, 1), HexPart(32, 90), HexPart(16, 91), HexPart(2, 1)>>,
      <<HexPart(2, 0), HexPart(31, 90), HexPart(16, 91), HexPart(2, 1)>> }

\* The callback run passes to step.do(TRACE_INIT_STEP, ...).
TraceInitCallback(p) ==
    IF Truthy(p) THEN p
    ELSE <<HexPart(2, 0), HexPart(32, FreshTraceId), HexPart(16, FreshSpanId),
           HexPart(2, 1)>>

\* The traceparent run works with, were it computed by run itself rather
\* than inside a durable step.
TraceInitResult_NotDurable(store, p) ==
    TraceInitCallback(p)

\* await step.do(TRACE_INIT_STEP, callback): the persisted result when the
\* step has completed in an earlier execution, the callback's otherwise.
TraceInitResult(store, p) ==
    IF store.has THEN store.value ELSE TraceInitCallback(p)

\* The parent context withTraceparentContext and run derive from the
\* traceparent: the remote parent, or context.active() when it does not parse.
TraceparentContext(w, active) ==
    IF HasSpan(spanContextFromTraceparent(w))
      THEN spanContextFromTraceparent(w)
      ELSE active

\* The context run's body executes in: context.with(parentContext, ...),
\* entered from the engine, where nothing is active.
RunContext == TraceparentContext(wf.traceparent, ROOT_CONTEXT)

StepKinds == {"do", "sleep", "sleepUntil", "waitForEvent"}

\* const TRACE_INIT_STEP = "__trace_init".
TRACE_INIT_STEP == "__trace_init"

\* What a step method takes after the name: do an optional config, sleep a
\* duration, sleepUntil a Date or a number, waitForEvent its options.
NoStepConfig == "undefined"
InvalidDate == "Invalid Date"
StepArgs(kind) ==
    CASE kind = "do" -> {NoStepConfig, "config"}
      [] kind = "sleep" -> {"duration"}
      [] kind = "sleepUntil" -> {"Date", "number", InvalidDate}
      [] OTHER -> {"options"}
DefaultArg(kind) ==
    CASE kind = "do" -> NoStepConfig
      [] kind = "sleep" -> "duration"
      [] kind = "sleepUntil" -> "Date"
      [] OTHER -> "options"

\* A call the engine's step received, and the way it settled.
Forwarded(kind, name, arg, how) ==
    [method |-> kind, name |-> name, arg |-> arg, how |-> how]

WorkflowInit ==
    /\ spans = <<>>
    /\ onEndCalls = <<>>
    /\ activeSpanProcessor = 1
    /\ procSpans = << <<>> >>
    /\ now = 0
    /\ lastIgnored = "none"
    /\ ids = [trace |-> 0, span |-> 0]
    /\ stack = [i \in Inv |-> <<>>]
    /\ calls = <<>>
    /\ payload \in Payloads
    /\ durable = [has |-> FALSE, value |-> Absent]
    /\ wf = [phase |-> "idle", traceparent |-> Absent, exec |-> 0,
             generated |-> 0]
    /\ obtained = <<>>
    /\ stepOf = <<>>
    /\ target = <<>>
    /\ NoAdapter
    /\ applied = NoApplication

\* The engine calls run(event, step): for the first time, or to replay the
\* instance after a pause.
WorkflowRun ==
    /\ wf.phase = "idle"
    /\ wf.exec < MaxExecutions
    /\ wf' = [wf EXCEPT !.phase = "init", !.exec = @ + 1]
    /\ target' = <<>>
    /\ applied' = NoApplication
    /\ UNCHANGED <<spanVars, payload, durable, obtained, stepOf>>
    /\ UNCHANGED <<tracerVars, adapterVars, configVars, fetchVars, wrapVars>>

\* const traceparent = await step.do(TRACE_INIT_STEP, ...).
TraceInitStep ==
    /\ wf.phase = "init"
    /\ LET traceparent == TraceInitResult(durable, payload)
           generates == ~durable.has /\ ~Truthy(payload)
       IN  /\ durable' = [has |-> TRUE, value |-> traceparent]
           /\ wf' = [wf EXCEPT !.phase = "body", !.traceparent = traceparent,
                               !.generated = IF generates THEN @ + 1 ELSE @]
           /\ obtained' = Append(obtained, traceparent)
           /\ target' = Append(target, Forwarded("do", TRACE_INIT_STEP, NoStepConfig,
                                                  "resolves"))
           /\ ids' = IF generates
                       THEN [trace |-> ids.trace + 1, span |-> ids.span + 1]
                       ELSE ids
    /\ UNCHANGED <<spans, onEndCalls, activeSpanProcessor, procSpans, now,
                   lastIgnored, payload, stepOf>>
    /\ UNCHANGED notWorkflow

\* How a step of the engine settles: as a call settles, or rejecting with
\* null or undefined.
StepOutcomes == Outcomes \cup {"throwsNullish"}

\* What the traced step hands the body of run: the step's value, the error
\* the step failed with, or the TypeError its catch block raises on reading
\* error.message of null or undefined.
StepResult(how) ==
    CASE how \in {"returns", "resolves"} -> "value"
      [] how = "throwsNullish" -> "TypeError"
      [] OTHER -> "thrown"

\* tracedSleepUntil: timestamp.toISOString() / new Date(timestamp)
\* .toISOString(), evaluated before anything else, throws a RangeError for
\* an invalid date.
IsoStringThrows(kind, arg) == kind = "sleepUntil" /\ arg = InvalidDate

\* The body of run calls tracedStep.do / sleep / sleepUntil / waitForEvent
\* with a name and a config, duration, timestamp or options:
\* withTraceparentContext starts the step span, the callback runs the step
\* of the engine and ends the span, recording the error when the step fails.
StepCall(kind, name, arg, how) ==
    /\ wf.phase = "body"
    /\ Len(spans) < MaxStepCalls
    /\ arg \in StepArgs(kind)
    /\ IF IsoStringThrows(kind, arg)
         THEN /\ applied' = [fn |-> "step", kind |-> kind, name |-> name,
                             arg |-> arg, before |-> Len(target),
                             result |-> "RangeError"]
              /\ UNCHANGED <<spans, procSpans, onEndCalls, ids, stepOf, target>>
         ELSE LET parentContext == TraceparentContext(wf.traceparent, RunContext)
                  span == startSpan("step", INTERNAL, parentContext, "workflow")
                  h == Len(spans) + 1
                  spanHow == IF how = "throwsNullish" THEN "rejects" ELSE how
                  H0 == [Heap EXCEPT !.spans = Append(spans, span),
                                     !.onEndCalls = Append(onEndCalls, 0)]
                  H1 == IF Failure(spanHow)
                          THEN SpanSet(H0, h, setStatus(
                                   recordException(span, NoTime, now), ERROR))
                          ELSE H0
                  H2 == SpanEnd(H1, h, NoTime)
                  H3 == SettleActiveSpan(H2, h, spanHow)
              IN  /\ spans' = H3.spans
                  /\ procSpans' = H3.procSpans
                  /\ onEndCalls' = H3.onEndCalls
                  /\ ids' = idsAfterStartSpan(parentContext)
                  /\ stepOf' = Append(stepOf, [kind |-> kind, exec |-> wf.exec,
                                               traceparent |-> wf.traceparent])
                  /\ target' = Append(target, Forwarded(kind, name, arg, how))
                  /\ applied' = [fn |-> "step", kind |-> kind, name |-> name,
                                 arg |-> arg, before |-> Len(target),
                                 result |-> StepResult(how)]
    /\ UNCHANGED <<activeSpanProcessor, now, lastIgnored, payload, durable,
                   wf, obtained>>
    /\ UNCHANGED <<tracerVars, adapterVars, configVars, fetchVars, wrapVars>>

\* A step call by its kind and the way the step settles alone.
TracedStep(kind, how) == StepCall(kind, "a", DefaultArg(kind), how)

\* The body of run returns or throws: finally { await flushCtx.flush() }.
RunSettles ==
    /\ wf.phase = "body"
    /\ wf' = [wf EXCEPT !.phase = "done"]
    /\ procSpans' = clear(procSpans, activeSpanProcessor)
    /\ UNCHANGED <<spans, onEndCalls, activeSpanProcessor, now, lastIgnored,
                   ids, payload, durable, obtained, stepOf, target>>
    /\ UNCHANGED notWorkflow

\* The engine pauses the instance at an await of the body and drops the
\* execution; a later execution replays run.
EnginePauses ==
    /\ wf.phase = "body"
    /\ wf' = [wf EXCEPT !.phase = "idle", !.traceparent = Absent]
    /\ UNCHANGED <<spanVars, payload, durable, obtained, stepOf, target>>
    /\ UNCHANGED notWorkflow

WorkflowNext ==
    \/ WorkflowRun
    \/ TraceInitStep
    \/ \E kind \in StepKinds, how \in Outcomes : TracedStep(kind, how)
    \/ RunSettles
    \/ EnginePauses

SpecWorkflow == WorkflowInit /\ [][WorkflowNext]_vars

\* C8: every execution of the traced run of one instance obtains the same
\* traceparent from step '__trace_init': the payload's _traceparent when the
\* payload carries one (a non-empty string), otherwise a well-formed value
\* that the first execution generated and no later one regenerated.
C8_SameTraceparentEveryExecution ==
    /\ \A k \in 1..Len(obtained) :
          /\ obtained[k] = obtained[1]
          /\ Truthy(payload) => obtained[k] = payload
          /\ ~Truthy(payload) => parseTraceparent(obtained[k]).ok
    /\ wf.generated <= 1
    /\ Truthy(payload) => wf.generated = 0
    /\ (~Truthy(payload) /\ obtained # <<>>) => wf.generated = 1

\* A replay obtained the traceparent the first execution had generated.
C8_ReplayObtainedGenerated ==
    /\ Len(obtained) >= 2
    /\ ~Truthy(payload)
    /\ wf.exec >= 2 /\ wf.phase = "body"
    /\ wf.traceparent = durable.value

StepSpans == 1..Len(stepOf)

\* C9: every step span is a child of the persisted parent: its traceId and
\* parentSpanId are the trace id and span id of the traceparent its
\* execution obtained from '__trace_init', so that the step spans of one run
\* share one traceId.
C9_StepSpansUnderPersistedParent ==
    /\ \A h \in StepSpans :
          /\ Len(stepOf[h].traceparent) = 4
          /\ spans[h].traceId = stepOf[h].traceparent[2].val
          /\ spans[h].parentSpanId = stepOf[h].traceparent[3].val
    /\ \A g, h \in StepSpans :
          stepOf[g].exec = stepOf[h].exec => spans[g].traceId = spans[h].traceId
\* ----------------------------------------- adapters, collectors, flushes

Range(seq) == {seq[k] : k \in 1..Len(seq)}

Adapters == {"fetch", "queue", "scheduled", "traceHandler", "workflow"}

\* instrument.fetch and traceHandler test shouldIgnoreUrl first.
HasIgnorePath(adapter) == adapter \in {"fetch", "traceHandler"}

\* Whether the adapter calls initOTLP: instrument.fetch returns the
\* handler's response for an ignored URL before it does.
CallsInitOTLP(adapter, ignored) == ~(adapter = "fetch" /\ ignored)

\* The kind of the span the adapter runs the handler in.
AdapterSpanKind(adapter) ==
    CASE adapter \in {"fetch", "traceHandler"} -> SERVER
      [] adapter = "queue" -> CONSUMER
      [] OTHER -> INTERNAL

\* How a handler settles: it returns (or resolves), it throws (or rejects
\* with) a value that has properties, such as an Error, or it throws null or
\* undefined, as a bare Promise.reject() does.
Hows == {"returns", "throws", "throwsNullish"}
Throws(how) == how \in {"throws", "throwsNullish"}

\* Whether the adapter is one of the two inbound-request adapters.
IsHttp(adapter) == adapter \in {"fetch", "traceHandler"}

\* Whether the adapter itself logs when the handler settles.  The catch
\* blocks build the log attributes from error.message first, which throws a
\* TypeError when error is null or undefined.
AdapterLogs(adapter, ignored, how) ==
    CASE adapter \in {"fetch", "traceHandler"} ->
             ~ignored /\ how # "throwsNullish"
      [] adapter \in {"queue", "scheduled"} -> how = "throws"
      [] OTHER -> TRUE

\* Whether the adapter reaches its flushCtx.flush() when the handler settles.
AdapterFlushes(adapter, ignored, how) ==
    CASE adapter = "fetch" -> ~ignored /\ how # "throwsNullish"
      [] adapter \in {"queue", "scheduled"} -> how = "returns"
      [] OTHER -> TRUE

\* patchGlobalFetch without its "already patched" test.
patchGlobalFetch_NoPatchedCheck(global, original) ==
    [global |-> tracedFetch(global), original |-> global]

\* patchGlobalFetch(): saves globalThis.fetch and installs a traced wrapper
\* of it, unless a fetch is saved already.
patchGlobalFetch(global, original) ==
    IF original # NoFetch THEN [global |-> global, original |-> original]
    ELSE [global |-> tracedFetch(global), original |-> global]

\* unpatchGlobalFetch(): puts the saved fetch back, if there is one.
unpatchGlobalFetch(global, original) ==
    IF original # NoFetch THEN [global |-> original, original |-> NoFetch]
    ELSE [global |-> global, original |-> original]

\* An exporter that calls whatever globalThis.fetch is.
ExportFetch_GlobalFetch(global, original) ==
    global

\* exportTraces / exportLogs: getOriginalFetch() ?? globalThis.fetch.
ExportFetch(global, original) ==
    IF original # NoFetch THEN original ELSE global

\* initOTLP making a collector of its own on every call.
InitProcessor_AlwaysNew(active, bufs) ==
    [active |-> Len(bufs) + 1, bufs |-> Append(bufs, <<>>)]

\* initOTLP: "reuse existing collectors if already set", else create and
\* register one.
InitProcessor(active, bufs) ==
    IF active # 0 THEN [active |-> active, bufs |-> bufs]
    ELSE [active |-> Len(bufs) + 1, bufs |-> Append(bufs, <<>>)]

\* A logger that leaves the trace fields of the entry out.
LogIn_NoContext(lg, i, ctx) ==
    [lg EXCEPT !.all = Append(@, [id |-> Len(lg.all) + 1, owner |-> i,
                                  handled |-> lg.handler,
                                  traceId |-> 0, spanId |-> 0]),
               !.buf = IF lg.handler THEN Append(@, Len(lg.all) + 1) ELSE @]

\* Logger.log called with ctx active: the entry takes the traceId and spanId
\* of the active span and goes to the active OTLP log handler, if any.
LogIn(lg, i, ctx) ==
    [lg EXCEPT !.all = Append(@, [id |-> Len(lg.all) + 1, owner |-> i,
                                  handled |-> lg.handler,
                                  traceId |-> ctx.traceId,
                                  spanId |-> ctx.spanId]),
               !.buf = IF lg.handler THEN Append(@, Len(lg.all) + 1) ELSE @]

\* Logger.log called by invocation i where it stands.
EmitLogTo(lg, i) == LogIn(lg, i, ActiveContext(i))

\* A queue message body: whether it is an object, its own fields, and its
\* _traceparent field: absent, a string, or a value of another type.
Body(fields, key, traceparent) ==
    [isObject |-> TRUE, fields |-> fields, key |-> key,
     traceparent |-> traceparent]
TextBody == [isObject |-> FALSE, fields |-> "text", key |-> "absent",
             traceparent |-> Absent]

\* extractSpanContextFromMessage(body): the remote parent, or null.
extractSpanContextFromMessage(body) ==
    IF body.isObject /\ body.key = "string"
      THEN spanContextFromTraceparent(body.traceparent)
      ELSE ROOT_CONTEXT

\* An adapter that reads the context of every message and keeps the last.
WireParent_LastMessage(adapter, req) ==
    CASE IsHttp(adapter) ->
             IF Truthy(req.traceparent)
               THEN spanContextFromTraceparent(req.traceparent)
               ELSE ROOT_CONTEXT
      [] adapter = "queue" ->
             IF req.batch # <<>>
               THEN extractSpanContextFromMessage(req.batch[Len(req.batch)])
               ELSE ROOT_CONTEXT
      [] OTHER -> ROOT_CONTEXT

\* The remote parent the adapter extracts: from the traceparent header of
\* the request, from the body of the first message of the batch, or none
\* (a context without a span).
WireParent(adapter, req) ==
    CASE IsHttp(adapter) ->
             IF Truthy(req.traceparent)
               THEN spanContextFromTraceparent(req.traceparent)
               ELSE ROOT_CONTEXT
      [] adapter = "queue" ->
             IF req.batch # <<>>
               THEN extractSpanContextFromMessage(req.batch[1])
               ELSE ROOT_CONTEXT
      [] OTHER -> ROOT_CONTEXT

\* let parentContext = context.active(); if (parentSpanContext) ... setSpan.
ParentContext(wire, active) == IF HasSpan(wire) THEN wire ELSE active

StatusCodeKey(status) ==
    IF status = 500 THEN "http.response.status_code=500"
                    ELSE "http.response.status_code=200"

\* What the adapter does with its span h when the handler settles, up to
\* the return or throw of the callback it gave startActiveSpan.
AdapterCatch(H, adapter, h, how) ==
    LET s == H.spans[h]
    IN  CASE how = "returns" ->
                 IF IsHttp(adapter)
                   THEN SpanEnd(SpanSet(H, h, setAttribute(s, StatusCodeKey(200))),
                                h, NoTime)
                   ELSE SpanEnd(H, h, NoTime)
          [] how = "throws" ->
                 LET s1 == recordException(s, NoTime, now)
                     s2 == IF IsHttp(adapter)
                             THEN setAttribute(s1, StatusCodeKey(500)) ELSE s1
                 IN  SpanEnd(SpanSet(H, h, setStatus(s2, ERROR)), h, NoTime)
          [] OTHER -> H

\* How the callback the adapter gave startActiveSpan settles: the http
\* adapters return the 500 response from their catch block, runWithSpan
\* rethrows, and a TypeError raised inside the catch block escapes it.
CallbackOutcome(adapter, how) ==
    CASE how = "returns" -> "resolves"
      [] how = "throws" -> IF IsHttp(adapter) THEN "resolves" ELSE "rejects"
      [] OTHER -> "rejects"

\* What the adapter hands the runtime once the handler has settled.
AdapterResponse(adapter, ignored, s, traceparent, how) ==
    CASE IsHttp(adapter) /\ ignored ->
             IF how = "returns"
               THEN [NoResponse EXCEPT !.kind = "response", !.status = 200]
               ELSE [NoResponse EXCEPT !.kind = "rejected", !.error = how]
      [] IsHttp(adapter) /\ ~ignored ->
             CASE how = "returns" ->
                      [NoResponse EXCEPT !.kind = "response", !.status = 200,
                                         !.traceparent = traceparent]
               [] how = "throws" ->
                      [NoResponse EXCEPT !.kind = "response", !.status = 500,
                                         !.bodyTraceId = s.traceId,
                                         !.traceparent = traceparent]
               [] OTHER ->
                      [NoResponse EXCEPT !.kind = "rejected",
                                         !.error = "TypeError"]
      [] adapter \in {"queue", "scheduled"} ->
             CASE how = "returns" -> [NoResponse EXCEPT !.kind = "resolved"]
               [] how = "throws" ->
                      [NoResponse EXCEPT !.kind = "rejected", !.error = how]
               [] OTHER ->
                      [NoResponse EXCEPT !.kind = "rejected",
                                         !.error = "TypeError"]
      [] OTHER ->
             IF how = "returns" THEN [NoResponse EXCEPT !.kind = "resolved"]
             ELSE [NoResponse EXCEPT !.kind = "rejected", !.error = how]

ExportOutcomes == {"ok", "notOk", "networkError", "encodeError"}

\* The promise of exportTraces / exportLogs: a response that is not ok and
\* an error of fetch are logged; an error building the request is outside
\* the try block.
ExportResult(outcome) ==
    IF outcome = "encodeError" THEN "rejected" ELSE "resolved"

\* await Promise.all(results).
AwaitAll(results) ==
    IF "rejected" \in results THEN "rejected" ELSE "resolved"

\* A try block whose catch lets the error through.
TryCatch_Rethrows(result) ==
    result

\* try { await ... } catch (error) { console.error(...) }.
TryCatch(result) ==
    "resolved"

FlushFns == {"flush", "flushTraces", "flushLogs", "flushAll", "flushToEnv"}

\* The promise of flush function fn once the exports of its parts settled.
FlushResult(fn, parts, outT, outL) ==
    LET tr == IF "traces" \in parts THEN ExportResult(outT) ELSE "resolved"
        lg == IF "logs" \in parts THEN ExportResult(outL) ELSE "resolved"
    IN  CASE fn = "flush" -> TryCatch(AwaitAll({tr, lg}))
          [] fn = "flushTraces" -> TryCatch(tr)
          [] fn = "flushLogs" -> TryCatch(lg)
          [] OTHER -> AwaitAll({TryCatch(tr), TryCatch(lg)})

\* The ended spans and handled logs that no flush or clear has removed.
PendingSpans(sp, rem) ==
    {h \in 1..Len(sp) :
        sp[h].ended /\ ~\E r \in rem : r.kind = "span" /\ r.item = h}
PendingLogs(lg, rem) ==
    {l.id : l \in {e \in Range(lg.all) :
        e.handled /\ ~\E r \in rem : r.kind = "log" /\ r.item = e.id}}

\* The collectors: what a flush reads and changes.
Collectors ==
    [procSpans |-> procSpans, spans |-> spans, logs |-> logs,
     removed |-> removed, exported |-> exported, dropped |-> dropped,
     active |-> activeSpanProcessor,
     fetchFn |-> ExportFetch(globalFetch, originalFetch)]

\* A flush that leaves the buffers as they are.
ClearParts_KeepsBuffers(C, i, processor, parts) ==
    C

\* spanProcessor.clear() and / or logHandler.clear(), called by i.
ClearParts(C, i, processor, parts) ==
    LET gone == (IF "traces" \in parts /\ processor # 0
                   THEN {[kind |-> "span", item |-> h, by |-> i] :
                            h \in Range(C.procSpans[processor])}
                   ELSE {})
                \cup
                (IF "logs" \in parts
                   THEN {[kind |-> "log", item |-> l, by |-> i] :
                            l \in Range(C.logs.buf)}
                   ELSE {})
    IN  [C EXCEPT !.procSpans = IF "traces" \in parts /\ processor # 0
                                  THEN clear(@, processor) ELSE @,
                  !.logs.buf = IF "logs" \in parts THEN <<>> ELSE @,
                  !.removed = @ \cup gone]

\* The exports a call of fn starts: flush exports what is not empty; the
\* standalone functions return early without a collector or with nothing
\* collected, flushToEnv without a configured exporter.
ExportParts(C, fn, processor) ==
    LET wantsTraces == fn \in {"flush", "flushTraces", "flushAll", "flushToEnv"}
        wantsLogs == fn \in {"flush", "flushLogs", "flushAll", "flushToEnv"}
        enabled == fn # "flushToEnv" \/ configured
    IN  (IF enabled /\ wantsTraces /\ processor # 0
            /\ C.procSpans[processor] # <<>> THEN {"traces"} ELSE {})
        \cup
        (IF enabled /\ wantsLogs /\ C.logs.handler
            /\ C.logs.buf # <<>> THEN {"logs"} ELSE {})

\* getSpans() / getLogs(): what the export of a part is handed.
Snapshot(C, part, processor) ==
    IF part = "traces" THEN Range(C.procSpans[processor])
                       ELSE Range(C.logs.buf)

\* The items of a part whose export attempt has failed before.
DroppedOf(C, part) ==
    {d.item : d \in {x \in C.dropped : x.part = part}}

\* The export requests a call of fn by i sends.
ExportRequests(C, i, fn, processor) ==
    {[by |-> i, kind |-> part,
      items |-> Snapshot(C, part, processor),
      pending |-> IF part = "traces" THEN PendingSpans(C.spans, C.removed)
                                     ELSE PendingLogs(C.logs, C.removed),
      resent |-> Snapshot(C, part, processor) \cap DroppedOf(C, part),
      via |-> C.fetchFn] :
        part \in ExportParts(C, fn, processor)}

\* What the export attempts of a call of fn carry, by part.
SentBy(C, fn, processor) ==
    UNION {{[part |-> part, item |-> x] : x \in Snapshot(C, part, processor)} :
              part \in ExportParts(C, fn, processor)}

\* What fn clears once its exports have settled.
ClearedBy(fn, parts) == IF fn = "flush" THEN {"traces", "logs"} ELSE parts

\* A call of flush function fn by i, up to its first await: the collectors
\* and the state of the call.
BeginFlush(C, i, fn, processor) ==
    IF fn = "flush" /\ ~configured
      THEN [C |-> ClearParts(C, i, processor, {"traces", "logs"}),
            fl |-> [NoFlush EXCEPT !.fn = fn, !.state = "resolved",
                                   !.processor = processor]]
    ELSE IF fn # "flush" /\ ExportParts(C, fn, processor) = {}
      THEN [C |-> C,
            fl |-> [NoFlush EXCEPT !.fn = fn, !.state = "resolved",
                                   !.processor = processor]]
    ELSE [C |-> [C EXCEPT !.exported =
                     @ \cup ExportRequests(C, i, fn, processor)],
          fl |-> [NoFlush EXCEPT !.fn = fn, !.state = "exporting",
                                 !.parts = ExportParts(C, fn, processor),
                                 !.processor = processor,
                                 !.sent = SentBy(C, fn, processor)]]

AdapterInit ==
    /\ spans = <<>>
    /\ onEndCalls = <<>>
    /\ activeSpanProcessor = 0
    /\ procSpans = <<>>
    /\ now = 0
    /\ lastIgnored = "none"
    /\ ids = [trace |-> 0, span |-> 0]
    /\ stack = [i \in Inv |-> <<>>]
    /\ calls = <<>>
    /\ NoWorkflow
    /\ inv = [i \in Inv |-> IdleInvocation]
    /\ flushing = [i \in Inv |-> NoFlush]
    /\ logs = [handler |-> FALSE, buf |-> <<>>, all |-> <<>>]
    /\ exported = {}
    /\ removed = {}
    /\ dropped = {}
    /\ configured \in BOOLEAN
    /\ env = (IF configured THEN GrafanaEnv ELSE EmptyEnv)
    /\ opts = NoOptions
    /\ globalFetch = NativeFetch
    /\ originalFetch = NoFetch
    /\ wraps = <<>>
    /\ applied = NoApplication

\* The runtime calls the adapter for invocation i with request, batch or
\* event req: initOTLP, then startActiveSpan under the remote parent of the
\* wire context, if it has one (for an ignored URL: no span in
\* instrument.fetch, a 'noop' span ended at once in traceHandler; none in
\* traceWorkflow).  The handler then runs with the span active.
AdapterEnter(i, adapter, ignored, req) ==
    /\ inv[i].phase = "idle"
    /\ ignored => HasIgnorePath(adapter)
    /\ LET init == CallsInitOTLP(adapter, ignored)
           P == IF init THEN InitProcessor(activeSpanProcessor, procSpans)
                        ELSE [active |-> activeSpanProcessor, bufs |-> procSpans]
           starts == init /\ adapter # "workflow"
           parentContext == IF ignored THEN ActiveContext(i)
                            ELSE ParentContext(WireParent(adapter, req),
                                               ActiveContext(i))
           span == startSpan(IF ignored THEN "noop" ELSE adapter,
                             IF ignored THEN INTERNAL ELSE AdapterSpanKind(adapter),
                             parentContext, i)
           h == Len(spans) + 1
           H0 == [spans |-> Append(spans, span), procSpans |-> P.bufs,
                  onEndCalls |-> Append(onEndCalls, 0), active |-> P.active]
           H1 == IF ignored THEN SpanEnd(H0, h, NoTime) ELSE H0
           active == starts /\ ~ignored
       IN  /\ activeSpanProcessor' = P.active
           /\ IF starts
                THEN /\ spans' = H1.spans
                     /\ procSpans' = H1.procSpans
                     /\ onEndCalls' = H1.onEndCalls
                     /\ ids' = idsAfterStartSpan(parentContext)
                ELSE /\ procSpans' = P.bufs
                     /\ UNCHANGED <<spans, onEndCalls, ids>>
           /\ stack' = IF active
                         THEN [stack EXCEPT ![i] =
                                 Append(@, [ctx |-> ContextOf(h, span),
                                            span |-> h, explicit |-> FALSE])]
                         ELSE stack
           /\ logs' = LET lg == [logs EXCEPT !.handler = @ \/ init]
                      IN  IF adapter = "workflow" THEN EmitLogTo(lg, i) ELSE lg
           /\ LET F == IF init THEN patchGlobalFetch(globalFetch, originalFetch)
                                ELSE [global |-> globalFetch,
                                      original |-> originalFetch]
              IN  /\ globalFetch' = F.global
                  /\ originalFetch' = F.original
           /\ inv' = [inv EXCEPT ![i] =
                 [IdleInvocation EXCEPT !.adapter = adapter,
                     !.phase = "handler", !.ignored = ignored,
                     !.processor = IF init THEN P.active ELSE 0,
                     !.span = IF active THEN h ELSE 0,
                     !.req = req,
                     !.traceparent = IF active
                                       THEN toTraceparent(ContextOf(h, span))
                                       ELSE Absent]]
    /\ UNCHANGED <<now, lastIgnored, flushing, exported, removed, dropped,
                   configured>>
    /\ UNCHANGED notAdapter

\* The handler of invocation i logs.
EmitLog(i) ==
    /\ inv[i].phase = "handler"
    /\ Len(logs.all) < MaxLogs
    /\ logs' = EmitLogTo(logs, i)
    /\ UNCHANGED <<spanVars, inv, flushing, exported, removed, dropped,
                   configured>>
    /\ UNCHANGED <<fetchVars, stack>>
    /\ UNCHANGED notAdapter

\* The handler of invocation i calls flushCtx.clear().
Clear(i) ==
    /\ inv[i].phase = "handler"
    /\ inv[i].processor # 0
    /\ procSpans[inv[i].processor] # <<>> \/ logs.buf # <<>>
    /\ LET C == ClearParts(Collectors, i, inv[i].processor, {"traces", "logs"})
       IN  /\ procSpans' = C.procSpans
           /\ logs' = C.logs
           /\ removed' = C.removed
    /\ UNCHANGED <<spans, onEndCalls, activeSpanProcessor, now, lastIgnored,
                   ids, inv, flushing, exported, dropped, configured>>
    /\ UNCHANGED <<fetchVars, stack>>
    /\ UNCHANGED notAdapter

\* The handler of invocation i calls one of the standalone flush functions.
StandaloneFlush(i, fn) ==
    /\ inv[i].phase = "handler"
    /\ flushing[i].state = "none"
    /\ fn # "flush"
    /\ LET B == BeginFlush(Collectors, i, fn, activeSpanProcessor)
       IN  /\ procSpans' = B.C.procSpans
           /\ logs' = B.C.logs
           /\ removed' = B.C.removed
           /\ exported' = B.C.exported
           /\ flushing' = [flushing EXCEPT ![i] = B.fl]
    /\ UNCHANGED <<spans, onEndCalls, activeSpanProcessor, now, lastIgnored,
                   ids, inv, dropped, configured>>
    /\ UNCHANGED <<fetchVars, stack>>
    /\ UNCHANGED notAdapter

\* The handler of invocation i returns or throws: the adapter logs, settles
\* its span, builds what it hands the runtime, and calls flushCtx.flush()
\* where its code reaches that call.
HandlerSettles(i, how) ==
    /\ inv[i].phase = "handler"
    /\ flushing[i].state # "exporting"
    /\ IF inv[i].span = 0 THEN stack[i] = <<>>
       ELSE stack[i][Len(stack[i])].span = inv[i].span
    /\ LET adapter == inv[i].adapter
           h == inv[i].span
           lg == IF AdapterLogs(adapter, inv[i].ignored, how)
                   THEN EmitLogTo(logs, i) ELSE logs
           H == IF h = 0 THEN Heap
                ELSE SettleActiveSpan(AdapterCatch(Heap, adapter, h, how), h,
                                      CallbackOutcome(adapter, how))
           C == [Collectors EXCEPT !.procSpans = H.procSpans,
                                   !.spans = H.spans, !.logs = lg]
           flushes == AdapterFlushes(adapter, inv[i].ignored, how)
           B == IF flushes THEN BeginFlush(C, i, "flush", inv[i].processor)
                           ELSE [C |-> C, fl |-> flushing[i]]
       IN  /\ spans' = H.spans
           /\ onEndCalls' = H.onEndCalls
           /\ procSpans' = B.C.procSpans
           /\ logs' = B.C.logs
           /\ removed' = B.C.removed
           /\ exported' = B.C.exported
           /\ flushing' = [flushing EXCEPT ![i] = B.fl]
           /\ inv' = [inv EXCEPT ![i].phase = "exited", ![i].how = how,
                                 ![i].flushes = IF flushes THEN @ + 1 ELSE @,
                                 ![i].response =
                                    AdapterResponse(adapter, inv[i].ignored,
                                        IF h = 0 THEN NoSpan ELSE H.spans[h],
                                        inv[i].traceparent, how)]
           /\ stack' = IF h = 0 THEN stack
                        ELSE [stack EXCEPT ![i] = SubSeq(@, 1, Len(@) - 1)]
    /\ UNCHANGED <<activeSpanProcessor, now, lastIgnored, ids, dropped,
                   configured>>
    /\ UNCHANGED fetchVars
    /\ UNCHANGED notAdapter

\* The exports of i's flush settle: the flush clears the collectors and its
\* promise settles.
FlushSettles(i, outT, outL) ==
    /\ flushing[i].state = "exporting"
    /\ outT = "none" <=> "traces" \notin flushing[i].parts
    /\ outL = "none" <=> "logs" \notin flushing[i].parts
    /\ LET fl == flushing[i]
           C == ClearParts(Collectors, i, fl.processor,
                           ClearedBy(fl.fn, fl.parts))
       IN  /\ procSpans' = C.procSpans
           /\ logs' = C.logs
           /\ removed' = C.removed
           /\ flushing' = [flushing EXCEPT ![i] =
                 [fl EXCEPT !.state = FlushResult(fl.fn, fl.parts, outT, outL),
                            !.failed = {ExportResult(o) :
                                          o \in {outT, outL} \ {"ok", "none"}},
                            !.sent = {}]]
           /\ dropped' = dropped \cup
                 {x \in fl.sent :
                     \/ x.part = "traces" /\ outT \notin {"ok", "none"}
                     \/ x.part = "logs" /\ outL \notin {"ok", "none"}}
    /\ UNCHANGED <<spans, onEndCalls, activeSpanProcessor, now, lastIgnored,
                   ids, inv, exported, configured>>
    /\ UNCHANGED <<fetchVars, stack>>
    /\ UNCHANGED notAdapter

\* Two invocations interleaved, each in an adapter; the exports succeed.
AdapterNext ==
    \/ \E i \in Inv, adapter \in Adapters, ignored \in BOOLEAN :
          AdapterEnter(i, adapter, ignored, NoRequest)
    \/ \E i \in Inv : EmitLog(i)
    \/ \E i \in Inv : Clear(i)
    \/ \E i \in Inv, how \in {"returns", "throws"} : HandlerSettles(i, how)
    \/ \E i \in Inv, outT, outL \in {"ok", "none"} :
          FlushSettles(i, outT, outL)

SpecAdapter == AdapterInit /\ [][AdapterNext]_vars

\* One invocation, its handler calling the flush functions, and the exports
\* settling in every way.
FlushNext ==
    \/ \E adapter \in Adapters, ignored \in BOOLEAN :
          AdapterEnter("A", adapter, ignored, NoRequest)
    \/ EmitLog("A")
    \/ \E fn \in FlushFns : StandaloneFlush("A", fn)
    \/ \E how \in {"returns", "throws"} : HandlerSettles("A", how)
    \/ \E outT, outL \in ExportOutcomes \cup {"none"} :
          FlushSettles("A", outT, outL)

SpecFlush == AdapterInit /\ [][FlushNext]_vars

\* The invocation that ended span h, or emitted log l.
LogOwner(l) == logs.all[l].owner
ItemOwner(kind, item) ==
    IF kind \in {"span", "traces"} THEN spans[item].owner ELSE LogOwner(item)

C4_OneFlushAtExit ==
    \A i \in Inv : inv[i].phase = "exited" => inv[i].flushes = 1

\* C10: the promise of flush(), flushTraces, flushLogs, flushAll or
\* flushToEnv is never rejected, whatever the outcome of the export of the
\* traces and of the logs.
C10_FlushNeverRejects ==
    \A i \in Inv : flushing[i].state \in {"none", "exporting", "resolved"}

\* A flush() resolved although its exports failed, one with a promise that
\* resolved and one with a promise that was rejected.
C10_FlushResolvedAfterFailures ==
    \E i \in Inv :
        /\ flushing[i].fn = "flush"
        /\ flushing[i].state = "resolved"
        /\ flushing[i].failed = {"resolved", "rejected"}

\* C11: with an exporter configured and one invocation at work, once flush()
\* has completed the span buffer and the log buffer are empty, whether its
\* exports succeeded or failed; and no export request of any flush carries a
\* span or a log that was part of an export attempt that failed.
C11_FailedExportsDropped ==
    /\ \A i \in Inv :
          (configured /\ flushing[i].fn = "flush"
                      /\ flushing[i].state = "resolved") =>
              /\ procSpans[flushing[i].processor] = <<>>
              /\ logs.buf = <<>>
    /\ \A e \in exported : e.resent = {}

\* An export attempt of a log failed, and flush() has since exported a later
\* log without it, failed as well, and completed.
C11_LaterFlushAfterFailure ==
    \E i \in Inv, d \in dropped, e \in exported :
        /\ configured
        /\ flushing[i].fn = "flush" /\ flushing[i].state = "resolved"
        /\ flushing[i].failed # {}
        /\ e.kind = d.part /\ e.by = i
        /\ \A x \in e.items : x > d.item
\* ------------------------------------------------ exporter configuration

NoConfig == [ok |-> FALSE, endpoint |-> Undefined, auth |-> Undefined]

\* headersEnv.match(/Authorization=(.+)/i): the captured value, if any.
AuthorizationMatch(headers) ==
    IF headers.key \in {"Authorization", "authorization"} /\ headers.value # ""
      THEN headers.value ELSE Undefined

\* The auth header getOTLPConfigFromEnv resolves: from the headers variable,
\* else from the Grafana instance id and token, else none.
AuthHeader(e) ==
    IF e.headers # NoHeaders /\ AuthorizationMatch(e.headers) # Undefined
      THEN AuthorizationMatch(e.headers)
    ELSE IF IsSet(e.instanceId) /\ IsSet(e.token)
      THEN "Basic btoa(instanceId:token)"
    ELSE Undefined

\* getOTLPConfigFromEnv that asks for an endpoint only.
getOTLPConfigFromEnv_EndpointOnly(e) ==
    IF ~IsSet(e.endpoint) THEN NoConfig
    ELSE [ok |-> TRUE, endpoint |-> e.endpoint, auth |-> AuthHeader(e)]

\* getOTLPConfigFromEnv(env): the exporter config, or null (NoConfig).
getOTLPConfigFromEnv(e) ==
    IF ~IsSet(e.endpoint) THEN NoConfig
    ELSE IF AuthHeader(e) = Undefined THEN NoConfig
    ELSE [ok |-> TRUE, endpoint |-> e.endpoint, auth |-> AuthHeader(e)]

\* The config a caller hands to instrument() as options.exporter.
ExplicitConfig ==
    [ok |-> TRUE, endpoint |-> "https://collector.example",
     auth |-> "Bearer explicit"]

\* getExporterConfig(opts, env) of instrument().
getExporterConfig(o, e) ==
    IF o.disableExport THEN NoConfig
    ELSE IF o.exporter THEN ExplicitConfig
    ELSE getOTLPConfigFromEnv(e)

\* The config initOTLP works with in each adapter: instrument() passes the
\* result of getExporterConfig as configOverride, traceHandler and
\* traceWorkflow pass none and initOTLP reads env.
ResolvedConfig(adapter) ==
    IF adapter \in {"fetch", "queue", "scheduled"}
      THEN getExporterConfig(opts, env)
      ELSE getOTLPConfigFromEnv(env)

Endpoints == {Undefined, "", "https://otlp.example"}
HeaderValues ==
    { NoHeaders,
      [key |-> "Authorization", value |-> "Basic abc"],
      [key |-> "authorization", value |-> "Bearer t"],
      [key |-> "Authorization", value |-> ""],
      [key |-> "X-Scope-OrgID", value |-> "1"] }
Envs == [endpoint : Endpoints, headers : HeaderValues,
         instanceId : {Undefined, "1234"}, token : {Undefined, "glc_token"}]
Options == [disableExport : BOOLEAN, exporter : BOOLEAN]

ConfigInit ==
    /\ spans = <<>>
    /\ onEndCalls = <<>>
    /\ activeSpanProcessor = 0
    /\ procSpans = <<>>
    /\ now = 0
    /\ lastIgnored = "none"
    /\ ids = [trace |-> 0, span |-> 0]
    /\ stack = [i \in Inv |-> <<>>]
    /\ calls = <<>>
    /\ NoWorkflow
    /\ inv = [i \in Inv |-> IdleInvocation]
    /\ flushing = [i \in Inv |-> NoFlush]
    /\ logs = [handler |-> FALSE, buf |-> <<>>, all |-> <<>>]
    /\ exported = {}
    /\ removed = {}
    /\ dropped = {}
    /\ env \in Envs
    /\ opts \in Options
    /\ configured \in {ResolvedConfig(adapter).ok : adapter \in Adapters}
    /\ globalFetch = NativeFetch
    /\ originalFetch = NoFetch
    /\ wraps = <<>>
    /\ applied = NoApplication

\* The runtime calls an adapter whose initOTLP resolves the config the
\* flush context of this behaviour works with.
ConfigEnter(adapter, ignored) ==
    /\ configured = ResolvedConfig(adapter).ok
    /\ AdapterEnter("A", adapter, ignored, NoRequest)

\* One invocation under every environment and every set of options.
ConfigNext ==
    \/ \E adapter \in Adapters, ignored \in BOOLEAN :
          ConfigEnter(adapter, ignored)
    \/ EmitLog("A")
    \/ \E how \in {"returns", "throws"} : HandlerSettles("A", how)
    \/ \E outT, outL \in ExportOutcomes \cup {"none"} :
          FlushSettles("A", outT, outL)

SpecConfig == ConfigInit /\ [][ConfigNext]_vars

\* The endpoint variable is unset.
EndpointUnset == env.endpoint \in {Undefined, ""}

\* Neither an Authorization entry with a value in the headers variable nor
\* an instance id together with a token.
AuthUnresolved ==
    /\ ~(env.headers.key \in {"Authorization", "authorization"}
          /\ env.headers.value # "")
    /\ env.instanceId \in {Undefined, ""} \/ env.token \in {Undefined, ""}

\* Whether the exporter of invocation i's adapter is to be disabled: export
\* is explicitly disabled, or no exporter config is given to instrument()
\* and the environment lacks the endpoint or the auth.
ExporterDisabled(i) ==
    IF inv[i].adapter \in {"fetch", "queue", "scheduled"}
      THEN \/ opts.disableExport
           \/ ~opts.exporter /\ (EndpointUnset \/ AuthUnresolved)
      ELSE EndpointUnset \/ AuthUnresolved

PatchGlobalFetch ==
    /\ originalFetch = NoFetch
    /\ LET F == patchGlobalFetch(globalFetch, originalFetch)
       IN  /\ globalFetch' = F.global
           /\ originalFetch' = F.original
    /\ UNCHANGED <<spanVars, adapterVars, stack>>
    /\ UNCHANGED notAdapter

\* Code of the isolate calls unpatchGlobalFetch().
UnpatchGlobalFetch ==
    /\ originalFetch # NoFetch
    /\ LET F == unpatchGlobalFetch(globalFetch, originalFetch)
       IN  /\ globalFetch' = F.global
           /\ originalFetch' = F.original
    /\ UNCHANGED <<spanVars, adapterVars, stack>>
    /\ UNCHANGED notAdapter

\* One invocation and its flushes, with the global fetch patched and
\* unpatched at any point.
ExportNext ==
    \/ FlushNext
    \/ PatchGlobalFetch
    \/ UnpatchGlobalFetch

SpecExport == AdapterInit /\ [][ExportNext]_vars

\* C13: every export request, of traces and of logs, is sent through the
\* fetch of the runtime and never through a traced wrapper, also while
\* globalThis.fetch is the wrapper patchGlobalFetch installed; so an export
\* starts no CLIENT span, and a step that sends export requests or settles
\* a flush starts no span.
C13_ExportBypassesTracedFetch ==
    /\ [](\A e \in exported : e.via = NativeFetch /\ ClientSpansOf(e.via) = 0)
    /\ [][(exported' # exported \/ \E i \in Inv : flushing'[i] # flushing[i])
             => Len(spans') = Len(spans)]_vars

\* A flush has exported traces and logs while globalThis.fetch was the
\* traced wrapper.
C13_ExportedWhilePatched ==
    /\ originalFetch # NoFetch
    /\ ClientSpansOf(globalFetch) = 1
    /\ \E e \in exported : e.kind = "traces"
    /\ \E e \in exported : e.kind = "logs"
    /\ \E i \in Inv : flushing[i].state = "exporting"

\* --------------------------------------- requests, messages and wrappers

\* getTraceparent() where ctx is the active context.
getTraceparentIn(ctx) == IF HasSpan(ctx) THEN toTraceparent(ctx) ELSE Absent

\* Trace and span ids that arrive on the wire from two remote callers.
RemoteA == [has |-> TRUE, traceId |-> 91, spanId |-> 81, h |-> 0]
RemoteB == [has |-> TRUE, traceId |-> 92, spanId |-> 82, h |-> 0]

\* Strings that are not a traceparent: a part missing, a trace id one digit
\* short, a trace id that is not hexadecimal.
MalformedWires ==
    { <<HexPart(2, 0), HexPart(32, 91), HexPart(16, 81)>>,
      <<HexPart(2, 0), HexPart(31, 91), HexPart(16, 81), HexPart(2, 1)>>,
      <<HexPart(2, 0), [len |-> 32, hex |-> FALSE, val |-> 91],
        HexPart(16, 81), HexPart(2, 1)>> }

\* Whether a header or field value lacks the shape 2-32-16-2 of hex digits.
Malformed(w) ==
    \/ Len(w) # 4
    \/ \E k \in 1..Len(w) : ~w[k].hex
    \/ Len(w) = 4 /\ <<w[1].len, w[2].len, w[3].len, w[4].len>> # <<2, 32, 16, 2>>

\* The traceparent header of an inbound request.
HeaderValues_Request ==
    {Absent, toTraceparent(RemoteA)} \cup MalformedWires

\* Message bodies a producer that is not traced may send.
MessageBodies ==
    { Body("order", "absent", Absent),
      Body("order", "string", toTraceparent(RemoteA)),
      Body("order", "string", toTraceparent(RemoteB)),
      Body("order", "string",
           <<HexPart(2, 0), HexPart(32, 91), HexPart(16, 81)>>),
      Body("order", "number", Absent),
      TextBody }

\* withTraceContext(body) where ctx is the active context:
\* { ...body, _traceparent: traceparent } when there is an active span.
withTraceContext_NoInjection(body, ctx) ==
    body

withTraceContext(body, ctx) ==
    IF Truthy(getTraceparentIn(ctx))
      THEN [body EXCEPT !.key = "string", !.traceparent = getTraceparentIn(ctx)]
      ELSE body

Wrappers == {"withTrace", "tracedFetch", "queueSend", "queueSendBatch"}

WrapperSpanKind(wrapper) ==
    CASE wrapper = "tracedFetch" -> CLIENT
      [] wrapper \in {"queueSend", "queueSendBatch"} -> PRODUCER
      [] OTHER -> INTERNAL

\* The traceparent header tracedFetch sets on the request it hands its base
\* fetch: getTraceparent() before the CLIENT span is started.
OutboundHeader_BeforeSpan(active, own) ==
    getTraceparentIn(active)

\* headers.set("traceparent", getTraceparent()!) inside the callback of
\* startActiveSpan, where the CLIENT span is the active one.
OutboundHeader(active, own) ==
    getTraceparentIn(own)

\* What a wrapper logs, records on its span h and does to it once the
\* wrapped call has settled, up to the return or throw of its callback.
\* withTrace records the exception and ends the span; the others log with
\* error.message first, which is a TypeError for null or undefined.
WrapperCatch(H, wrapper, h, how) ==
    LET s == H.spans[h]
    IN  CASE how = "returns" ->
                 IF wrapper = "tracedFetch"
                   THEN SpanEnd(SpanSet(H, h, setAttribute(s, StatusCodeKey(200))),
                                h, NoTime)
                   ELSE SpanEnd(H, h, NoTime)
          [] wrapper = "withTrace" ->
                 SpanEnd(SpanSet(H, h, recordException(s, NoTime, now)),
                         h, NoTime)
          [] how = "throws" ->
                 SpanEnd(SpanSet(H, h, setStatus(recordException(s, NoTime, now),
                                                 ERROR)), h, NoTime)
          [] OTHER -> H

\* Whether the wrapper logs when the wrapped call settles.
WrapperLogs(wrapper, how) ==
    CASE wrapper = "tracedFetch" -> how # "throwsNullish"
      [] wrapper = "withTrace" -> FALSE
      [] OTHER -> how = "throws"

\* What the wrapper hands its caller: the value, the error it caught, or
\* the TypeError raised in its catch block.
WrapperResult(wrapper, how) ==
    CASE how = "returns" -> "value"
      [] how = "throws" -> "thrown"
      [] OTHER -> IF wrapper = "withTrace" THEN "thrown" ELSE "TypeError"

\* The parent option of withTrace and the parent argument of
\* withParentTrace: absent, a traceparent string, or a SpanContext.
NoParent == [form |-> "none", wire |-> Absent, ctx |-> ROOT_CONTEXT]
StringParent(w) == [form |-> "string", wire |-> w, ctx |-> ROOT_CONTEXT]
ContextParent(c) == [form |-> "context", wire |-> Absent, ctx |-> c]

\* typeof parent === "string" ? spanContextFromTraceparent(parent) : parent.
ParentSpanContext(parent) ==
    CASE parent.form = "string" -> spanContextFromTraceparent(parent.wire)
      [] parent.form = "context" -> parent.ctx
      [] OTHER -> ROOT_CONTEXT

\* withTrace preferring the active span to the parent it was given.
ExplicitParentContext_ActiveFirst(parent, active) ==
    IF HasSpan(active) THEN active
    ELSE IF HasSpan(ParentSpanContext(parent)) THEN ParentSpanContext(parent)
    ELSE active

\* withTrace: let parentContext = context.active(); if (opts?.parent) and
\* the parent resolves to a span context, the context with that span set.
ExplicitParentContext(parent, active) ==
    IF parent.form = "none" \/ (parent.form = "string" /\ ~Truthy(parent.wire))
      THEN active
    ELSE IF HasSpan(ParentSpanContext(parent)) THEN ParentSpanContext(parent)
    ELSE active

\* The handler of invocation i calls a wrapper around fn, a request or the
\* messages msgs, withTrace possibly with a parent option: the wrapper
\* starts its span under the parent context and runs the rest with that
\* span active, up to the call it wraps.
WrapStartUnder(i, wrapper, msgs, parent) ==
    /\ inv[i].phase = "handler"
    /\ Len(wraps) < MaxWraps
    /\ wrapper \in {"withTrace", "tracedFetch"} => msgs = <<>>
    /\ wrapper = "queueSend" => Len(msgs) = 1
    /\ wrapper = "queueSendBatch" => Len(msgs) >= 1
    /\ wrapper # "withTrace" => parent = NoParent
    /\ LET active == ActiveContext(i)
           parentContext == ExplicitParentContext(parent, active)
           span == startSpan(wrapper, WrapperSpanKind(wrapper), parentContext, i)
           h == Len(spans) + 1
           own == ContextOf(h, span)
       IN  /\ spans' = Append(spans, span)
           /\ onEndCalls' = Append(onEndCalls, 0)
           /\ ids' = idsAfterStartSpan(parentContext)
           /\ stack' = [stack EXCEPT ![i] =
                 Append(@, [ctx |-> own, span |-> h, explicit |-> FALSE])]
           /\ wraps' = Append(wraps,
                 [wrapper |-> wrapper, by |-> i, span |-> h, active |-> active,
                  parent |-> parent, depth |-> Len(stack[i]) + 1,
                  header |-> IF wrapper = "tracedFetch"
                               THEN OutboundHeader(active, own) ELSE Absent,
                  msgs |-> msgs,
                  sent |-> [k \in 1..Len(msgs) |-> withTraceContext(msgs[k], own)],
                  state |-> "open", how |-> "none", result |-> "none"])
    /\ UNCHANGED <<activeSpanProcessor, procSpans, now, lastIgnored, calls>>
    /\ UNCHANGED <<workflowVars, adapterVars, configVars, fetchVars, applyVars>>

\* A wrapper called without a parent option.
WrapStart(i, wrapper, msgs) == WrapStartUnder(i, wrapper, msgs, NoParent)

\* The call a wrapper of invocation i wraps settles: the wrapper's catch
\* block, the branches of startActiveSpan around it, and the end of the
\* extent in which the wrapper's span was active.
WrapSettles(i, how) ==
    /\ inv[i].phase = "handler"
    /\ stack[i] # <<>>
    /\ \E k \in 1..Len(wraps) :
         /\ wraps[k].state = "open"
         /\ wraps[k].span = stack[i][Len(stack[i])].span
         /\ ~stack[i][Len(stack[i])].explicit
         /\ LET w == wraps[k]
                h == w.span
                H == SettleActiveSpan(WrapperCatch(Heap, w.wrapper, h, how), h,
                                      IF how = "returns" THEN "resolves"
                                                         ELSE "rejects")
            IN  /\ spans' = H.spans
                /\ procSpans' = H.procSpans
                /\ onEndCalls' = H.onEndCalls
                /\ logs' = IF WrapperLogs(w.wrapper, how)
                             THEN EmitLogTo(logs, i) ELSE logs
                /\ wraps' = [wraps EXCEPT ![k].state = "settled",
                                          ![k].how = how,
                                          ![k].result =
                                             WrapperResult(w.wrapper, how)]
    /\ stack' = [stack EXCEPT ![i] = SubSeq(@, 1, Len(@) - 1)]
    /\ UNCHANGED <<activeSpanProcessor, now, lastIgnored, ids, calls>>
    /\ UNCHANGED <<inv, flushing, exported, removed, dropped, configured>>
    /\ UNCHANGED <<workflowVars, configVars, fetchVars, applyVars>>

\* What arrives at invocation i: a request for the http adapters, a batch
\* for the queue consumer, an event for the scheduled handler.
Arrivals(adapter) ==
    CASE IsHttp(adapter) ->
             {[NoRequest EXCEPT !.traceparent = w] : w \in HeaderValues_Request}
      [] adapter = "queue" ->
             {[NoRequest EXCEPT !.batch = <<b>>] : b \in MessageBodies}
             \cup {[NoRequest EXCEPT !.batch = <<b, c>>] :
                      b \in MessageBodies,
                      c \in {Body("order", "absent", Absent),
                             Body("order", "string", toTraceparent(RemoteB))}}
      [] OTHER -> {NoRequest}

\* The messages a traced producer has sent, as the queue delivers them.
Delivered ==
    {[NoRequest EXCEPT !.batch = wraps[k].sent] :
        k \in {j \in 1..Len(wraps) :
                 /\ wraps[j].wrapper \in {"queueSend", "queueSendBatch"}
                 /\ wraps[j].how = "returns"}}

RequestAdapters == {"fetch", "traceHandler", "queue", "scheduled"}

RequestInit ==
    /\ AdapterInit
    /\ ~configured

\* Invocation A handles any arrival; invocation B is the consumer of what A
\* has sent to the queue.
RequestArrives ==
    \/ \E adapter \in RequestAdapters, ignored \in BOOLEAN :
          \E req \in Arrivals(adapter) : AdapterEnter("A", adapter, ignored, req)
    \/ /\ inv["A"].phase = "exited"
       /\ \E req \in Delivered : AdapterEnter("B", "queue", FALSE, req)

RequestNext ==
    \/ RequestArrives
    \/ \E i \in Inv : EmitLog(i)
    \/ \E i \in Inv, wrapper \in Wrappers :
          \E msgs \in {<<>>, <<Body("order", "absent", Absent)>>,
                        <<Body("order", "absent", Absent),
                          Body("invoice", "string", toTraceparent(RemoteB))>>} :
             WrapStart(i, wrapper, msgs)
    \/ \E i \in Inv, how \in Hows : WrapSettles(i, how)
    \/ \E i \in Inv, how \in Hows : HandlerSettles(i, how)

SpecRequest == RequestInit /\ [][RequestNext]_vars

\* The number of 'exception' events of span s.
ExceptionEvents(s) ==
    Cardinality({k \in 1..Len(s.events) : s.events[k].name = "exception"})

\* Span s ended having recorded one failure.
EndedWithError(s) ==
    s.ended /\ ExceptionEvents(s) = 1 /\ s.status = ERROR

\* C14: when the wrapped logic throws or rejects under withTrace, the queue
\* adapter, the scheduled adapter, wrapQueue.send / sendBatch or tracedFetch,
\* the span ends with exactly one 'exception' event and status ERROR, and
\* the caller gets the very error that was thrown.
C14_FailureRecordedAndRethrown ==
    /\ \A k \in 1..Len(wraps) :
          wraps[k].state = "settled" /\ Throws(wraps[k].how)
              => /\ EndedWithError(spans[wraps[k].span])
                 /\ wraps[k].result = "thrown"
    /\ \A i \in Inv :
          /\ inv[i].phase = "exited"
          /\ inv[i].adapter \in {"queue", "scheduled"}
          /\ Throws(inv[i].how)
          => /\ EndedWithError(spans[inv[i].span])
             /\ inv[i].response.kind = "rejected"
             /\ inv[i].response.error = inv[i].how

\* C15: when the handler of instrument.fetch or traceHandler throws, the
\* adapter does not reject: it answers 500 with the server span's traceId in
\* the body, the server span ends with status ERROR and
\* http.response.status_code 500, and the traceparent header of the
\* response carries the same traceId.
C15_HandlerThrowAnswered500 ==
    \A i \in Inv :
        /\ inv[i].phase = "exited"
        /\ IsHttp(inv[i].adapter)
        /\ ~inv[i].ignored
        /\ Throws(inv[i].how)
        => LET s == spans[inv[i].span]
               r == inv[i].response
           IN  /\ r.kind = "response"
               /\ r.status = 500
               /\ r.bodyTraceId = s.traceId
               /\ s.ended /\ s.status = ERROR
               /\ StatusCodeKey(500) \in s.attributes
               /\ parseTraceparent(r.traceparent).ok
               /\ parseTraceparent(r.traceparent).traceId = s.traceId

\* Span h is the root of a trace of its own: no parent, and a trace id that
\* did not arrive on the wire and that no earlier span has.
FreshRoot(h) ==
    /\ spans[h].parentSpanId = 0
    /\ spans[h].traceId \notin {RemoteA.traceId, RemoteB.traceId}
    /\ \A g \in 1..(h - 1) : spans[g].traceId # spans[h].traceId

\* Whether what arrived carries a malformed wire context where the adapter
\* looks for one.
MalformedArrival(adapter, req) ==
    CASE IsHttp(adapter) ->
             Truthy(req.traceparent) /\ Malformed(req.traceparent)
      [] adapter = "queue" ->
             /\ req.batch # <<>>
             /\ req.batch[1].isObject
             /\ \/ req.batch[1].key = "number"
                \/ req.batch[1].key = "string"
                   /\ Malformed(req.batch[1].traceparent)
      [] OTHER -> FALSE

\* C17: a malformed traceparent header or a malformed _traceparent in the
\* first message of a batch is treated as an absent parent: the handler is
\* invoked, the adapter raises no error of its own, and its span is a new
\* root.
C17_MalformedWireContextIsAbsent ==
    \A i \in Inv :
        /\ inv[i].phase # "idle"
        /\ ~inv[i].ignored
        /\ MalformedArrival(inv[i].adapter, inv[i].req)
        => /\ inv[i].phase \in {"handler", "exited"}
           /\ inv[i].span # 0
           /\ FreshRoot(inv[i].span)
           /\ inv[i].how = "returns" =>
                  inv[i].response.kind \in {"response", "resolved"}

C17_MalformedHandled ==
    /\ inv["A"].phase = "exited"
    /\ inv["A"].how = "returns"
    /\ inv["A"].adapter = "queue"
    /\ MalformedArrival("queue", inv["A"].req)
    /\ Len(inv["A"].req.batch) = 2
    /\ inv["A"].req.batch[2].key = "string"

FirstMessageContext(req) ==
    /\ req.batch # <<>>
    /\ req.batch[1].isObject
    /\ req.batch[1].key = "string"
    /\ ~Malformed(req.batch[1].traceparent)
    /\ req.batch[1].traceparent[1].val = 0

\* C19: the queue consumer creates one CONSUMER span for the whole batch,
\* and only the first message gives it a parent: with a valid _traceparent
\* there, the span has that traceId and that spanId as its parent; the
\* contexts of later messages are never used.
C19_ConsumerParentFromFirstMessage ==
    \A i \in Inv :
        inv[i].adapter = "queue" /\ inv[i].phase # "idle"
        => LET req == inv[i].req
               s == spans[inv[i].span]
           IN  /\ Cardinality({h \in Handles : /\ spans[h].kind = CONSUMER
                                                /\ spans[h].owner = i}) = 1
               /\ s.kind = CONSUMER
               /\ IF FirstMessageContext(req)
                    THEN /\ s.traceId = req.batch[1].traceparent[2].val
                         /\ s.parentSpanId = req.batch[1].traceparent[3].val
                    ELSE FreshRoot(inv[i].span)

C19_LaterMessageHasOtherContext ==
    \E i \in Inv :
        /\ inv[i].adapter = "queue"
        /\ inv[i].phase = "exited"
        /\ Len(inv[i].req.batch) = 2
        /\ FirstMessageContext(inv[i].req)
        /\ inv[i].req.batch[2].key = "string"
        /\ inv[i].req.batch[2].traceparent # inv[i].req.batch[1].traceparent

\* C20: wrapQueue.send and sendBatch create a PRODUCER span under the
\* active span and put into every message body a _traceparent with the
\* active trace's id and the PRODUCER span's id, leaving the other fields
\* as they were; a consumer that gets such a message first starts its span
\* as a child of the producer span.
C20_ProducerContextInjected ==
    /\ \A k \in 1..Len(wraps) :
          wraps[k].wrapper \in {"queueSend", "queueSendBatch"}
          => LET s == spans[wraps[k].span]
             IN  /\ s.kind = PRODUCER
                 /\ HasSpan(wraps[k].active)
                       => /\ s.parentSpanId = wraps[k].active.spanId
                          /\ s.traceId = wraps[k].active.traceId
                 /\ Len(wraps[k].sent) = Len(wraps[k].msgs)
                 /\ \A m \in 1..Len(wraps[k].msgs) :
                       /\ wraps[k].sent[m].fields = wraps[k].msgs[m].fields
                       /\ wraps[k].sent[m].isObject
                       /\ wraps[k].sent[m].key = "string"
                       /\ parseTraceparent(wraps[k].sent[m].traceparent).ok
                       /\ parseTraceparent(wraps[k].sent[m].traceparent).traceId
                             = s.traceId
                       /\ parseTraceparent(wraps[k].sent[m].traceparent).spanId
                             = s.spanId
    /\ \A i \in Inv : \A k \in 1..Len(wraps) :
          /\ inv[i].adapter = "queue"
          /\ inv[i].phase # "idle"
          /\ wraps[k].wrapper \in {"queueSend", "queueSendBatch"}
          /\ inv[i].req.batch = wraps[k].sent
          => /\ spans[inv[i].span].parentSpanId = spans[wraps[k].span].spanId
             /\ spans[inv[i].span].traceId = spans[wraps[k].span].traceId
             /\ spans[inv[i].span].kind = CONSUMER

C20_SentBatchConsumed ==
    \E k \in 1..Len(wraps) :
        /\ wraps[k].wrapper = "queueSendBatch"
        /\ Len(wraps[k].msgs) = 2
        /\ wraps[k].msgs[2].key = "string"
        /\ HasSpan(wraps[k].active)
        /\ inv["B"].phase = "exited"
        /\ inv["B"].req.batch = wraps[k].sent

\* ------------------------------------------ inbound requests interleaved

InboundArrives(i, adapter, traceparent) ==
    AdapterEnter(i, adapter, FALSE, [NoRequest EXCEPT !.traceparent = traceparent])

InboundNext ==
    \/ \E i \in Inv, adapter \in {"fetch", "traceHandler"} :
          \E w \in {Absent, toTraceparent(RemoteA)} :
             InboundArrives(i, adapter, w)
    \/ \E i \in Inv : EmitLog(i)
    \/ \E i \in Inv : WrapStart(i, "tracedFetch", <<>>)
    \/ \E i \in Inv, how \in Hows : WrapSettles(i, how)
    \/ \E i \in Inv, how \in Hows : HandlerSettles(i, how)

SpecInbound == RequestInit /\ [][InboundNext]_vars

\* The log entries emitted by invocation i.
LogsOf(i) == {l \in Range(logs.all) : l.owner = i}

DEFAULT_IGNORE_URLS ==
    <<"/health", "/healthz", "/ready", "/readyz", "/live", "/livez", "/ping">>

\* An entry of ignoreUrls: a string, or a RegExp given by the paths its
\* test() accepts.
StringPattern(text) == [regexp |-> FALSE, text |-> text, accepts |-> {}]
RegExpPattern(accepts) == [regexp |-> TRUE, text |-> "", accepts |-> accepts]
DefaultPatterns ==
    [k \in 1..Len(DEFAULT_IGNORE_URLS) |-> StringPattern(DEFAULT_IGNORE_URLS[k])]

\* shouldIgnoreUrl(request, ignoreUrls).
shouldIgnoreUrl(pathname, ignoreUrls) ==
    LET patterns == IF ignoreUrls.given THEN ignoreUrls.list ELSE DefaultPatterns
    IN  \E k \in 1..Len(patterns) :
            IF patterns[k].regexp THEN pathname \in patterns[k].accepts
                                  ELSE pathname = patterns[k].text

Paths == {"/health", "/status", "/internal/jobs", "/api/orders"}

IgnoreLists ==
    { NoIgnoreUrls,
      [given |-> TRUE, list |-> <<>>],
      [given |-> TRUE, list |-> <<StringPattern("/status")>>],
      [given |-> TRUE, list |-> <<StringPattern("/status"),
                                  RegExpPattern({"/internal/jobs"})>>] }

\* A request for pathname arrives at an inbound-request adapter set up with
\* ignoreUrls.
IgnoreArrives(i, adapter, pathname, ignoreUrls) ==
    AdapterEnter(i, adapter, shouldIgnoreUrl(pathname, ignoreUrls),
                 [NoRequest EXCEPT !.path = pathname, !.ignoreUrls = ignoreUrls])

IgnoreNext ==
    \/ \E adapter \in {"fetch", "traceHandler"}, pathname \in Paths :
          \E ignoreUrls \in IgnoreLists :
             IgnoreArrives("A", adapter, pathname, ignoreUrls)
    \/ EmitLog("A")
    \/ \E how \in {"returns", "throws"} : HandlerSettles("A", how)
    \/ \E outT, outL \in {"ok", "none"} : FlushSettles("A", outT, outL)

SpecIgnore == AdapterInit /\ [][IgnoreNext]_vars

\* C21: for a request whose path matches the ignore list, instrument.fetch
\* and traceHandler invoke the handler and create no span: no span of that
\* request exists, is in the collector, or is exported.
C21_IgnoredPathMakesNoSpan ==
    \A i \in Inv :
        /\ IsHttp(inv[i].adapter)
        /\ inv[i].phase # "idle"
        /\ shouldIgnoreUrl(inv[i].req.path, inv[i].req.ignoreUrls)
        => /\ inv[i].phase \in {"handler", "exited"}
           /\ \A h \in Handles : spans[h].owner # i
           /\ \A p \in 1..Len(procSpans) : procSpans[p] = <<>>
           /\ \A e \in exported : e.kind # "traces"

\* ------------------------------------------------------------ body capture

\* Every part of the program at rest, but for the function applied.
Quiescent ==
    /\ spans = <<>>
    /\ onEndCalls = <<>>
    /\ activeSpanProcessor = 0
    /\ procSpans = <<>>
    /\ now = 0
    /\ lastIgnored = "none"
    /\ ids = [trace |-> 0, span |-> 0]
    /\ stack = [i \in Inv |-> <<>>]
    /\ calls = <<>>
    /\ NoWorkflow
    /\ NoAdapter

\* A body: null, or a value of some kind (a ReadableStream for a Request or
\* Response) with its content, shorter or longer than MAX_BODY_LOG_SIZE,
\* and whether it is locked to a reader or a tee.
NullBody == [has |-> FALSE, kind |-> "null", content |-> "empty",
             locked |-> FALSE]
BodyOf(kind, content) ==
    [has |-> TRUE, kind |-> kind, content |-> content, locked |-> FALSE]

\* ReadableStream.tee(): the stream is locked, two branches deliver its
\* content.
tee(body) ==
    [source |-> [body EXCEPT !.locked = TRUE],
     branches |-> <<BodyOf("stream", body.content),
                    BodyOf("stream", body.content)>>]

\* The text the capture loop keeps: at most MAX_BODY_LOG_SIZE characters
\* and a mark.
Truncated(content) == IF content = "long" THEN "prefix...[truncated]" ELSE content

\* readBodyWithTruncate(body, contentType): the text, the stream returned,
\* and the state the body passed in is left in.
readBodyWithTruncate(body, loggable) ==
    IF ~body.has THEN [text |-> "", stream |-> NullBody, original |-> body]
    ELSE IF ~loggable THEN [text |-> "", stream |-> body, original |-> body]
    ELSE [text |-> Truncated(body.content), stream |-> tee(body).branches[2],
          original |-> tee(body).source]

\* captureBody(init.body, contentType) of tracedFetch.
captureBody(body, loggable) ==
    IF ~body.has \/ ~loggable THEN [text |-> "", stream |-> body, original |-> body]
    ELSE IF body.kind \in {"string", "URLSearchParams", "ArrayBuffer"}
      THEN [text |-> Truncated(body.content), stream |-> body, original |-> body]
    ELSE IF body.kind = "stream"
      THEN [text |-> Truncated(body.content), stream |-> tee(body).branches[2],
            original |-> tee(body).source]
    ELSE [text |-> "", stream |-> body, original |-> body]

\* captureResponseBody(response) of tracedFetch: the text and the body of
\* the response it returns.
captureResponseBody(body, loggable) ==
    IF ~loggable \/ ~body.has
      THEN [text |-> "", stream |-> body, original |-> body]
      ELSE [text |-> Truncated(body.content), stream |-> tee(body).branches[2],
            original |-> tee(body).source]

\* Where a body is captured, and by which function.
CaptureSites ==
    {"traceHandler.request", "traceHandler.response", "fetch.request",
     "fetch.response", "tracedFetch.request", "tracedFetch.response"}

CaptureAt(site, body, loggable) ==
    CASE site = "tracedFetch.request" -> captureBody(body, loggable)
      [] site = "tracedFetch.response" -> captureResponseBody(body, loggable)
      [] OTHER -> readBodyWithTruncate(body, loggable)

\* The body the real consumer is handed: traceHandler's handler keeps the
\* request it closed over; instrument.fetch builds a new Request around the
\* returned stream when there is one; the responses and tracedFetch's
\* request are built around the returned stream.
HandedBody(site, captured) ==
    CASE site = "traceHandler.request" -> captured.original
      [] site = "fetch.request" ->
             IF captured.stream.has THEN captured.stream ELSE captured.original
      [] OTHER -> captured.stream

\* text() / json() / getReader() on a body: a TypeError when it is locked.
ReadBody(body) ==
    IF body.locked THEN "TypeError"
    ELSE IF ~body.has THEN "empty" ELSE body.content

BodyKinds(site) ==
    IF site = "tracedFetch.request"
      THEN {"string", "URLSearchParams", "ArrayBuffer", "stream", "Blob"}
      ELSE {"stream"}

BodyInputs(site) ==
    {NullBody} \cup {BodyOf(k, c) : k \in BodyKinds(site), c \in {"short", "long"}}

BodyInit ==
    /\ Quiescent
    /\ \E site \in CaptureSites, loggable \in BOOLEAN :
          \E body \in BodyInputs(site) :
             applied = [fn |-> site, loggable |-> loggable, body |-> body,
                        stage |-> "arrived", text |-> "", handed |-> NullBody,
                        read |-> "none"]

\* The telemetry capture reads the body.
CaptureBody ==
    /\ applied.stage = "arrived"
    /\ LET captured == CaptureAt(applied.fn, applied.body, applied.loggable)
       IN  applied' = [applied EXCEPT !.stage = "captured",
                                      !.text = captured.text,
                                      !.handed = HandedBody(applied.fn, captured)]
    /\ UNCHANGED <<spanVars, tracerVars, workflowVars, adapterVars, configVars,
                   fetchVars, wrapVars>>

\* The handler, the base fetch or the caller reads the body it was handed.
ConsumeBody ==
    /\ applied.stage = "captured"
    /\ applied' = [applied EXCEPT !.stage = "consumed",
                                  !.read = ReadBody(applied.handed)]
    /\ UNCHANGED <<spanVars, tracerVars, workflowVars, adapterVars, configVars,
                   fetchVars, wrapVars>>

BodyNext == CaptureBody \/ ConsumeBody

SpecBody == BodyInit /\ [][BodyNext]_vars

\* C22: after the telemetry capture has read a request or response body in
\* instrument.fetch, traceHandler or tracedFetch, the body handed to the
\* real consumer is unlocked and delivers the full original content.
C22_CaptureLeavesBodyReadable ==
    /\ applied.stage \in {"captured", "consumed"} => ~applied.handed.locked
    /\ applied.stage = "consumed" => applied.read = ReadBody(applied.body)

\* ------------------------------------------------- the wire format alone

\* Span contexts with valid ids, whatever their flags.
WireContexts ==
    [traceId : {1, 2, 91, 92}, spanId : {1, 2, 81, 82}, traceFlags : {0, 1, 255}]

\* The segments a wire string may have in each place, well-formed or not.
VersionParts == {HexPart(2, 0), HexPart(2, 1), HexPart(2, 255), HexPart(1, 0),
                 [len |-> 2, hex |-> FALSE, val |-> 0]}
TraceIdParts == {HexPart(32, 91), HexPart(32, 0), HexPart(31, 91),
                 HexPart(33, 91), [len |-> 32, hex |-> FALSE, val |-> 91]}
SpanIdParts == {HexPart(16, 81), HexPart(15, 81), HexPart(32, 81),
                [len |-> 16, hex |-> FALSE, val |-> 81]}
FlagsParts == {HexPart(2, 1), HexPart(2, 0), HexPart(1, 1), HexPart(3, 1),
               [len |-> 2, hex |-> FALSE, val |-> 1]}

WireStrings ==
    {<<v, t, p, f>> : v \in VersionParts, t \in TraceIdParts,
                      p \in SpanIdParts, f \in FlagsParts}
    \cup {EmptyString, <<HexPart(2, 0), HexPart(32, 91), HexPart(16, 81)>>,
          <<HexPart(2, 0), HexPart(32, 91), HexPart(16, 81), HexPart(2, 1),
            HexPart(2, 1)>>}

NoWireContext == [traceId |-> 0, spanId |-> 0, traceFlags |-> 0]

WireInit ==
    /\ Quiescent
    /\ \/ \E ctx \in WireContexts :
             applied = [fn |-> "toTraceparent", ctx |-> ctx, wire |-> Absent,
                        stage |-> "context", parsed |-> NullTraceContext]
       \/ \E w \in WireStrings :
             applied = [fn |-> "parseTraceparent", ctx |-> NoWireContext,
                        wire |-> w, stage |-> "wire",
                        parsed |-> NullTraceContext]

\* toTraceparent(ctx) is applied.
FormatWire ==
    /\ applied.stage = "context"
    /\ applied' = [applied EXCEPT !.stage = "wire",
                                  !.wire = toTraceparent(applied.ctx)]
    /\ UNCHANGED <<spanVars, tracerVars, workflowVars, adapterVars, configVars,
                   fetchVars, wrapVars>>

\* parseTraceparent(wire) is applied.
ParseWire ==
    /\ applied.stage = "wire"
    /\ applied' = [applied EXCEPT !.stage = "parsed",
                                  !.parsed = parseTraceparent(applied.wire)]
    /\ UNCHANGED <<spanVars, tracerVars, workflowVars, adapterVars, configVars,
                   fetchVars, wrapVars>>

WireNext == FormatWire \/ ParseWire

SpecWire == WireInit /\ [][WireNext]_vars

\* C23: for valid ids and any flags, parse(format(traceId, spanId)) succeeds
\* and returns the same traceId and spanId, with version '00' and flags
\* '01' whatever the flags of the context were.
C23_FormatParseRoundTrip ==
    applied.fn = "toTraceparent" /\ applied.stage = "parsed"
    => /\ applied.parsed.ok
       /\ applied.parsed.traceId = applied.ctx.traceId
       /\ applied.parsed.spanId = applied.ctx.spanId
       /\ applied.parsed.version = HexPart(2, 0)
       /\ applied.parsed.flags = HexPart(2, 1)

C23_RoundTripOtherFlags ==
    /\ applied.fn = "toTraceparent"
    /\ applied.stage = "parsed"
    /\ applied.ctx.traceFlags = 0
    /\ applied.ctx.traceId # applied.ctx.spanId

\* Whether w is not of the form 00-<32 hex>-<16 hex>-<2 hex>.
MalformedWire(w) ==
    \/ Len(w) # 4
    \/ Len(w) = 4 /\ \/ w[1] # HexPart(2, 0)
                      \/ ~w[2].hex \/ w[2].len # 32
                      \/ ~w[3].hex \/ w[3].len # 16
                      \/ ~w[4].hex \/ w[4].len # 2

\* C24: for every malformed wire string, parse returns null; every value
\* it returns has version '00', a 32-hex traceId, a 16-hex spanId and
\* 2-hex flags, taken from the string.
C24_MalformedWireRejected ==
    applied.fn = "parseTraceparent" /\ applied.stage = "parsed"
    => LET w == applied.wire
       IN  /\ MalformedWire(w) => applied.parsed = NullTraceContext
           /\ applied.parsed.ok
                => /\ applied.parsed.version = HexPart(2, 0)
                   /\ w[2].len = 32 /\ w[2].hex
                   /\ applied.parsed.traceId = w[2].val
                   /\ w[3].len = 16 /\ w[3].hex
                   /\ applied.parsed.spanId = w[3].val
                   /\ applied.parsed.flags = w[4]
                   /\ w[4].len = 2 /\ w[4].hex

C24_WrongVersionRejected ==
    /\ applied.fn = "parseTraceparent"
    /\ applied.stage = "parsed"
    /\ Len(applied.wire) = 4
    /\ applied.wire[1] = HexPart(2, 1)
    /\ applied.wire[2] = HexPart(32, 91)
    /\ applied.wire[3] = HexPart(16, 81)
    /\ applied.wire[4] = HexPart(2, 1)
    /\ ~applied.parsed.ok

\* --------------------------------------------------------- explicit parents

\* Parents a caller may hand over: none, two valid ones in either form, a
\* string that is not a traceparent, the empty string.
ExplicitParents ==
    { NoParent, StringParent(toTraceparent(RemoteA)), ContextParent(RemoteB),
      StringParent(<<HexPart(2, 0), HexPart(31, 91), HexPart(16, 81),
                     HexPart(2, 1)>>),
      StringParent(EmptyString) }

\* withParentTrace(parent, fn) called by the handler of invocation i: fn
\* runs in the context with the parent set, or in the context as it is
\* when the parent does not resolve.
WithParentTrace(i, parent) ==
    /\ inv[i].phase = "handler"
    /\ applied = NoApplication
    /\ parent # NoParent
    /\ LET spanContext == ParentSpanContext(parent)
       IN  /\ stack' = IF HasSpan(spanContext)
                         THEN [stack EXCEPT ![i] =
                                 Append(@, [ctx |-> spanContext, span |-> 0,
                                            explicit |-> TRUE])]
                         ELSE stack
           /\ applied' = [fn |-> "withParentTrace", by |-> i, parent |-> parent,
                          depth |-> IF HasSpan(spanContext)
                                      THEN Len(stack[i]) + 1 ELSE 0,
                          wrapsBefore |-> Len(wraps), wrapsWithin |-> 0,
                          state |-> "open"]
    /\ UNCHANGED <<spanVars, calls, workflowVars, adapterVars, configVars,
                   fetchVars, wrapVars>>

\* fn of withParentTrace returns: the extent of context.with closes.
WithParentTraceEnds(i) ==
    /\ applied # NoApplication
    /\ applied.by = i
    /\ applied.state = "open"
    /\ applied.depth # 0 => Len(stack[i]) = applied.depth
    /\ applied.depth = 0 => \A k \in 1..Len(wraps) : wraps[k].state = "settled"
    /\ stack' = IF applied.depth # 0
                  THEN [stack EXCEPT ![i] = SubSeq(@, 1, Len(@) - 1)]
                  ELSE stack
    /\ applied' = [applied EXCEPT !.state = "closed",
                                  !.wrapsWithin = Len(wraps) - applied.wrapsBefore]
    /\ UNCHANGED <<spanVars, calls, workflowVars, adapterVars, configVars,
                   fetchVars, wrapVars>>

ParentNext ==
    \/ \E adapter \in {"fetch", "scheduled"}, ignored \in BOOLEAN :
          \E w \in {Absent, toTraceparent(RemoteA)} :
             AdapterEnter("A", adapter, ignored,
                          [NoRequest EXCEPT !.traceparent = w])
    \/ \E parent \in ExplicitParents : WithParentTrace("A", parent)
    \/ WithParentTraceEnds("A")
    \/ \E parent \in ExplicitParents :
          WrapStartUnder("A", "withTrace", <<>>, parent)
    \/ \E how \in Hows : WrapSettles("A", how)
    \/ \E how \in Hows : HandlerSettles("A", how)

SpecParent == RequestInit /\ [][ParentNext]_vars

\* Whether a parent handed over is a valid one, and its ids.
ValidParent(parent) ==
    \/ parent.form = "context" /\ parent.ctx.has
    \/ parent.form = "string" /\ ~MalformedWire(parent.wire)
IdsOfParent(parent) ==
    IF parent.form = "context"
      THEN [traceId |-> parent.ctx.traceId, spanId |-> parent.ctx.spanId]
      ELSE [traceId |-> parent.wire[2].val, spanId |-> parent.wire[3].val]

\* Span s is a child of the span with these ids.
ChildOf(s, p) == s.traceId = p.traceId /\ s.parentSpanId = p.spanId

\* C25: with an explicit valid parent given to withTrace, withParentTrace
\* or an adapter, the next span created has the parent's traceId and the
\* parent's spanId as parentSpanId, whatever span was active; without an
\* explicit parent the active span is the parent.
C25_ExplicitParentOverridesActive ==
    /\ \A k \in 1..Len(wraps) :
          LET w == wraps[k]
              s == spans[w.span]
              underExplicit ==
                  /\ applied # NoApplication
                  /\ applied.depth # 0
                  /\ w.depth = applied.depth + 1
                  /\ k > applied.wrapsBefore
                  /\ \/ applied.state = "open"
                     \/ k <= applied.wrapsBefore + applied.wrapsWithin
          IN  w.wrapper = "withTrace"
              => IF ValidParent(w.parent) THEN ChildOf(s, IdsOfParent(w.parent))
                 ELSE IF underExplicit /\ ValidParent(applied.parent)
                   THEN ChildOf(s, IdsOfParent(applied.parent))
                 ELSE IF HasSpan(w.active) THEN ChildOf(s, w.active)
                 ELSE FreshRoot(w.span)
    /\ \A i \in Inv :
          inv[i].span # 0 /\ inv[i].adapter = "fetch"
          => IF Truthy(inv[i].req.traceparent)
                  /\ ~MalformedWire(inv[i].req.traceparent)
               THEN ChildOf(spans[inv[i].span],
                            IdsOfParent(StringParent(inv[i].req.traceparent)))
               ELSE FreshRoot(inv[i].span)
    /\ applied # NoApplication /\ ValidParent(applied.parent)
          => applied.depth # 0

C25_ParentGivenWhileSpanActive ==
    \E k \in 1..Len(wraps) :
        /\ wraps[k].wrapper = "withTrace"
        /\ wraps[k].state = "settled"
        /\ ValidParent(wraps[k].parent)
        /\ HasSpan(wraps[k].active)
        /\ wraps[k].active.h # 0
        /\ wraps[k].active.traceId # IdsOfParent(wraps[k].parent).traceId

C25_UnderWithParentTrace ==
    \E k \in 1..Len(wraps) :
        /\ wraps[k].wrapper = "withTrace"
        /\ wraps[k].parent = NoParent
        /\ applied # NoApplication
        /\ ValidParent(applied.parent)
        /\ wraps[k].depth = applied.depth + 1
        /\ k > applied.wrapsBefore
        /\ applied.state = "open"
        /\ applied.depth = 2

\* ------------------------------------------------------ scheduled invocations

\* The spans the scheduled adapter has started.
ScheduledSpans == {h \in 1..Len(spans) : spans[h].name = "scheduled"}

\* C26: the span of a scheduled invocation has no parent, and its traceId
\* is that of no other invocation's span.
C26_ScheduledSpanIsRoot ==
    \A h \in ScheduledSpans :
        /\ spans[h].parentSpanId = 0
        /\ \A g \in 1..Len(spans) : g # h => spans[g].traceId # spans[h].traceId

C26_ScheduledWhileOtherOpen ==
    \E i, j \in Inv :
        /\ i # j
        /\ inv[i].adapter = "scheduled" /\ inv[i].span \in ScheduledSpans
        /\ inv[j].phase = "handler" /\ inv[j].span # 0
        /\ inv[j].span < inv[i].span

\* ------------------------------------------------------- the workflow span

\* The spans of the run that are not step spans.
WorkflowLevelSpans == {h \in 1..Len(spans) : spans[h].name # "step"}

\* C27: a traced workflow run that has settled has recorded, besides the
\* internal span of each step call, a workflow-level span of kind INTERNAL
\* under the trace of the persisted traceparent, and that span has ended.
C27_WorkflowSpanRecorded ==
    wf.phase = "done"
    => \E h \in WorkflowLevelSpans :
          /\ spans[h].kind = INTERNAL
          /\ spans[h].ended
          /\ HasSpan(spanContextFromTraceparent(wf.traceparent))
                => spans[h].traceId
                     = spanContextFromTraceparent(wf.traceparent).traceId

\* ------------------------------------------------------- the traced step

StepNames == {"a", "b"}

StepNext ==
    \/ WorkflowRun
    \/ TraceInitStep
    \/ \E kind \in StepKinds, name \in StepNames, how \in StepOutcomes :
          \E arg \in StepArgs(kind) : StepCall(kind, name, arg, how)
    \/ RunSettles
    \/ EnginePauses

SpecStep == WorkflowInit /\ [][StepNext]_vars

\* What the body of run gets when the engine's step settles this way and
\* the traced step hands it on unchanged.
Unchanged(how) ==
    IF how \in {"returns", "resolves"} THEN "value" ELSE "thrown"

\* C28: the traced step forwards each call to the engine's step exactly
\* once, with the same name and config or options, and hands the body of
\* run what the engine's step returned or rejected with; with n step.do
\* calls by the body the engine's step.do is called n + 1 times, the extra
\* call being '__trace_init', for which no span is created.
C28_StepCallsForwardedOnce ==
    /\ applied # NoApplication
          => /\ Len(target) = applied.before + 1
             /\ target[Len(target)].method = applied.kind
             /\ target[Len(target)].name = applied.name
             /\ target[Len(target)].arg = applied.arg
             /\ applied.result = Unchanged(target[Len(target)].how)
    /\ wf.phase \in {"body", "done"}
          => /\ Cardinality({k \in 1..Len(target) : target[k].method = "do"})
                  = 1 + Cardinality({h \in 1..Len(stepOf) :
                                       /\ stepOf[h].kind = "do"
                                       /\ stepOf[h].exec = wf.exec})
             /\ target[1].name = TRACE_INIT_STEP
    /\ Len(spans) = Len(stepOf)

\* The same, for steps that do not reject with null or undefined and
\* timestamps that are dates.
C28_ForwardedOnceBarNullish ==
    (/\ applied # NoApplication
     /\ applied.result \notin {"TypeError", "RangeError"})
    => /\ Len(target) = applied.before + 1
       /\ target[Len(target)].method = applied.kind
       /\ target[Len(target)].name = applied.name
       /\ target[Len(target)].arg = applied.arg
       /\ applied.result = Unchanged(target[Len(target)].how)

\* ------------------------------------------------------------ TracedError

\* A cause chain is the sequence of its values, outermost first: chain[k + 1]
\* is the cause of chain[k], and the last one has none.  A value is a
\* TracedError, an Error of another class, or not an Error.
MaxChain == 4
ErrorClasses == {"TracedError", "Error", "TypeError"}
ValueKinds == {"string", "object"}
IsChain(c) ==
    /\ c[1] = "TracedError"
    /\ \A k \in 1..(Len(c) - 1) : c[k] \in ErrorClasses
CauseChains ==
    UNION { {c \in [1..n -> ErrorClasses \cup ValueKinds] : IsChain(c)} :
              n \in 1..MaxChain }

\* chain[k] instanceof Error.
InstanceofError(chain, k) == k <= Len(chain) /\ chain[k] \in ErrorClasses

\* TracedError[Symbol.hasInstance](chain[k]): walks the cause chain for a
\* value whose prototype is TracedError.prototype.
RECURSIVE hasInstance(_, _)
hasInstance(chain, k) ==
    IF ~InstanceofError(chain, k) THEN FALSE
    ELSE IF chain[k] = "TracedError" THEN TRUE
    ELSE hasInstance(chain, k + 1)

\* What toJSON can produce: a TracedError's record, the three fields of
\* another Error, a cause that is not an Error, no cause, or the TypeError
\* of calling a toJSON that does not exist.
JsonUndefined == [type |-> "undefined"]
JsonValue(chain, k) == [type |-> "value", of |-> chain[k], at |-> k]
JsonError(chain, k) == [type |-> "error", name |-> chain[k], at |-> k]
JsonTraced(k, causeJson) == [type |-> "record", name |-> "TracedError",
                             at |-> k, cause |-> causeJson]
NotAFunction == [type |-> "throws", error |-> "TypeError"]

\* chain[k].toJSON(), chain[k] the TracedError `this`.
RECURSIVE toJSON(_, _)
toJSON(chain, k) ==
    LET causeJson ==
          IF hasInstance(chain, k + 1)
            THEN IF chain[k + 1] = "TracedError" THEN toJSON(chain, k + 1)
                 ELSE NotAFunction
          ELSE IF InstanceofError(chain, k + 1) THEN JsonError(chain, k + 1)
          ELSE IF k + 1 <= Len(chain) THEN JsonValue(chain, k + 1)
          ELSE JsonUndefined
    IN  IF causeJson.type = "throws" THEN causeJson
        ELSE JsonTraced(k, causeJson)

ErrorInit ==
    /\ Quiescent
    /\ \E c \in CauseChains :
          applied = [fn |-> "toJSON", chain |-> c, state |-> "built",
                     result |-> JsonUndefined]

\* JSON serialization of the outermost error is asked for.
ApplyToJSON ==
    /\ applied.fn = "toJSON"
    /\ applied.state = "built"
    /\ applied' = [applied EXCEPT !.state = "done",
                                  !.result = toJSON(applied.chain, 1)]
    /\ UNCHANGED <<spanVars, tracerVars, workflowVars, adapterVars, configVars,
                   fetchVars, wrapVars>>

ErrorNext == ApplyToJSON

SpecError == ErrorInit /\ [][ErrorNext]_vars

\* The record of chain[k] by the class chain[k] was created as.
RECURSIVE RecordOf(_, _)
RecordOf(chain, k) ==
    IF k > Len(chain) THEN JsonUndefined
    ELSE IF chain[k] = "TracedError"
      THEN JsonTraced(k, RecordOf(chain, k + 1))
    ELSE IF chain[k] \in ErrorClasses THEN JsonError(chain, k)
    ELSE JsonValue(chain, k)

\* C29: toJSON() returns a record for every cause chain; in it a cause that
\* is an Error but was not created as a TracedError appears as its name,
\* message and stack, and a cause created as a TracedError as its own
\* toJSON() record.
C29_ToJSONSerializesEveryChain ==
    (applied.fn = "toJSON" /\ applied.state = "done")
    => applied.result = RecordOf(applied.chain, 1)

\* The same, for chains in which no other Error has a TracedError below it.
C29_ToJSONBarTracedBelowError ==
    (/\ applied.fn = "toJSON" /\ applied.state = "done"
     /\ \A k \in 2..Len(applied.chain) :
           applied.chain[k] = "TracedError" => applied.chain[k - 1] = "TracedError")
    => applied.result = RecordOf(applied.chain, 1)

\* ------------------------------------------- collecting while a flush waits

\* Two invocations of one isolate with an exporter configured: spans end
\* and logs are emitted in one while the flush of the other awaits its
\* exports.  Nobody calls clear().
CollectInit == AdapterInit /\ configured

CollectNext ==
    \/ \E i \in Inv : AdapterEnter(i, "fetch", FALSE, NoRequest)
    \/ \E i \in Inv : EmitLog(i)
    \/ \E i \in Inv : WrapStart(i, "withTrace", <<>>)
    \/ \E i \in Inv : WrapSettles(i, "returns")
    \/ \E i \in Inv : HandlerSettles(i, "returns")
    \/ \E i \in Inv, outT, outL \in {"ok", "none"} : FlushSettles(i, outT, outL)

SpecCollect == CollectInit /\ [][CollectNext]_vars

\* The part of the Collector an item of this kind is in.
PartOfKind(kind) == IF kind = "span" THEN "traces" ELSE "logs"

\* C30: with an exporter configured, every span and log entry that the clear
\* step of a flush has removed from the buffers was in the snapshot of some
\* export attempt.
C30_RemovedOnlyAfterSnapshot ==
    configured
    => \A r \in removed :
          \E e \in exported : e.kind = PartOfKind(r.kind) /\ r.item \in e.items

\* C31: no ended span and no log entry is in the snapshot of more than one
\* export request, whatever way the flushes of the invocations overlap.
C31_ExportSnapshotsDisjoint ==
    \A e1, e2 \in exported :
        (e1 # e2 /\ e1.kind = e2.kind) => e1.items \cap e2.items = {}

\* ------------------------------------------- spans ended without a Collector

\* The spans some Collector holds.
Collected == UNION {Range(procSpans[p]) : p \in 1..Len(procSpans)}

\* C32: a span that has ended and that no Collector holds is in no Collector
\* after any further step: neither registering a Collector nor another
\* end() appends it.
C32_EndedUncollectedStaysOut ==
    [][\A h \in Handles :
          (spans[h].ended /\ h \notin Collected)
          => h \notin UNION {Range(procSpans'[p]) : p \in 1..Len(procSpans')}]_vars

C32_EndedAgainWithCollector ==
    /\ activeSpanProcessor # 0
    /\ lastIgnored = "end"
    /\ Len(spans) = 1
    /\ spans[1].ended
    /\ 1 \notin Collected

\* ------------------------------------------------- the extent of a context

\* C33: the context startActiveSpan makes active is active for the extent
\* of fn only.  Once fn has settled, in whichever way, the caller is back
\* in the context of before the call: no span is started under a span whose
\* fn has settled, and an invocation all of whose calls have settled has no
\* active span.
C33_ContextRestoredAfterFn ==
    /\ \A g, h \in Handles :
          (spans[h].parentSpanId = spans[g].spanId /\ Settled(g)) => Settled(h)
    /\ \A i \in Inv :
          (\A h \in Handles : spans[h].owner = i => Settled(h))
          => ActiveContext(i) = ROOT_CONTEXT

C33_SiblingAfterFailedFn ==
    \E i \in Inv :
        /\ Len(spans) = 2
        /\ spans[1].owner = i /\ spans[2].owner = i
        /\ Settled(1) /\ calls[1].how = "rejects"
        /\ ~Settled(2)
        /\ ~stack[i][1].explicit
        /\ spans[2].parentSpanId = 0

\* -------------------------------------------- patching the global fetch

MaxPatchCalls == 6

\* The isolate at load, before any call of the two functions.
PatchInit ==
    /\ Quiescent
    /\ applied = [fn |-> "patching", history |-> <<>>]

\* patchGlobalFetch() is called, patched already or not.
PatchCall ==
    /\ Len(applied.history) < MaxPatchCalls
    /\ LET F == patchGlobalFetch(globalFetch, originalFetch)
       IN  /\ globalFetch' = F.global
           /\ originalFetch' = F.original
    /\ applied' = [applied EXCEPT !.history = Append(@, "patch")]
    /\ UNCHANGED <<spanVars, tracerVars, workflowVars, adapterVars, configVars,
                   wrapVars>>

\* unpatchGlobalFetch() is called, patched or not.
UnpatchCall ==
    /\ Len(applied.history) < MaxPatchCalls
    /\ LET F == unpatchGlobalFetch(globalFetch, originalFetch)
       IN  /\ globalFetch' = F.global
           /\ originalFetch' = F.original
    /\ applied' = [applied EXCEPT !.history = Append(@, "unpatch")]
    /\ UNCHANGED <<spanVars, tracerVars, workflowVars, adapterVars, configVars,
                   wrapVars>>

PatchNext == PatchCall \/ UnpatchCall

SpecPatch == PatchInit /\ [][PatchNext]_vars

\* C34: after any sequence of patchGlobalFetch and unpatchGlobalFetch calls
\* the saved fetch is null and the global fetch is the fetch of the runtime,
\* or the saved fetch is the fetch of the runtime and the global fetch is
\* one traced wrapper around it; which of the two is decided by the last
\* call.
C34_PatchStateIsOneOfTwo ==
    /\ \/ originalFetch = NoFetch /\ globalFetch = NativeFetch
       \/ originalFetch = NativeFetch /\ globalFetch = tracedFetch(NativeFetch)
    /\ applied.history # <<>>
          => (originalFetch # NoFetch
                <=> applied.history[Len(applied.history)] = "patch")

C34_PatchedTwiceInARow ==
    /\ Len(applied.history) = 4
    /\ applied.history = <<"patch", "patch", "unpatch", "patch">>
    /\ originalFetch = NativeFetch

\* ------------------------------------------------------ initOTLP, again

\* Sequence a is the beginning of sequence b.
IsPrefix(a, b) == Len(a) <= Len(b) /\ SubSeq(b, 1, Len(a)) = a

\* C35: a call of initOTLP made while a span collector is registered leaves
\* that collector registered, creates no other, keeps what it has buffered,
\* and returns a FlushContext on it; likewise for the log collector and its
\* buffer.
C35_InitOTLPKeepsCollectors ==
    [][\A i \in Inv :
          (inv[i].phase = "idle" /\ inv'[i].phase = "handler")
          => /\ activeSpanProcessor # 0
                => /\ activeSpanProcessor' = activeSpanProcessor
                   /\ Len(procSpans') = Len(procSpans)
                   /\ IsPrefix(procSpans[activeSpanProcessor],
                               procSpans'[activeSpanProcessor])
                   /\ inv'[i].processor \in {0, activeSpanProcessor}
             /\ logs.handler
                => /\ logs'.handler
                   /\ IsPrefix(logs.buf, logs'.buf)]_vars

C35_InitOTLPWithBufferedSpan ==
    \E i \in Inv :
        /\ inv[i].phase = "handler"
        /\ inv[i].processor # 0
        /\ inv[i].processor = activeSpanProcessor
        /\ \E h \in Range(procSpans[activeSpanProcessor]) :
              spans[h].owner # i /\ h < inv[i].span
        /\ logs.buf # <<>>

\* ---------------------------------------------- clear, flush and shutdown

\* setSpanProcessor(null); setOTLPLogHandler(null).
Unregister(C) == [C EXCEPT !.active = 0, !.logs.handler = FALSE]

\* The handler of invocation i calls shutdown() of the FlushContext that
\* initOTLP returns for the registered collectors: await this.flush(), then
\* the two collectors are unregistered.  Without an exporter config flush
\* has no await.
Shutdown(i) ==
    /\ inv[i].phase = "handler"
    /\ flushing[i].state = "none"
    /\ activeSpanProcessor # 0
    /\ logs.handler
    /\ LET B == BeginFlush(Collectors, i, "flush", activeSpanProcessor)
           over == B.fl.state = "resolved"
           C == IF over THEN Unregister(B.C) ELSE B.C
       IN  /\ procSpans' = C.procSpans
           /\ logs' = C.logs
           /\ removed' = C.removed
           /\ exported' = C.exported
           /\ activeSpanProcessor' = C.active
           /\ flushing' = [flushing EXCEPT ![i] =
                 [B.fl EXCEPT !.fn = "shutdown",
                              !.state = IF over THEN "resolved" ELSE "shutting"]]
    /\ UNCHANGED <<spans, onEndCalls, now, lastIgnored, ids, inv, dropped,
                   configured>>
    /\ UNCHANGED <<fetchVars, stack>>
    /\ UNCHANGED notAdapter

\* The exports of the flush of i's shutdown settle: the flush clears the
\* collectors, then shutdown unregisters them.
ShutdownSettles(i, outT, outL) ==
    /\ flushing[i].state = "shutting"
    /\ outT = "none" <=> "traces" \notin flushing[i].parts
    /\ outL = "none" <=> "logs" \notin flushing[i].parts
    /\ LET fl == flushing[i]
           C == Unregister(ClearParts(Collectors, i, fl.processor,
                                      ClearedBy("flush", fl.parts)))
       IN  /\ procSpans' = C.procSpans
           /\ logs' = C.logs
           /\ removed' = C.removed
           /\ activeSpanProcessor' = C.active
           /\ flushing' = [flushing EXCEPT ![i] =
                 [fl EXCEPT !.state = FlushResult("flush", fl.parts, outT, outL),
                            !.sent = {}]]
    /\ UNCHANGED <<spans, onEndCalls, now, lastIgnored, ids, inv, exported,
                   dropped, configured>>
    /\ UNCHANGED <<fetchVars, stack>>
    /\ UNCHANGED notAdapter

\* Whether invocation i is over, its flush included.
Over(i) ==
    /\ inv[i].phase \in {"idle", "exited"}
    /\ flushing[i].state \notin {"exporting", "shutting"}

\* Invocations one after the other, their handlers calling clear() and
\* shutdown().
LifecycleNext ==
    \/ \E i \in Inv, adapter \in {"fetch", "traceHandler"} :
          /\ \A j \in Inv \ {i} : Over(j)
          /\ AdapterEnter(i, adapter, FALSE, NoRequest)
    \/ \E i \in Inv : EmitLog(i)
    \/ \E i \in Inv : WrapStart(i, "withTrace", <<>>)
    \/ \E i \in Inv : WrapSettles(i, "returns")
    \/ \E i \in Inv : Clear(i)
    \/ \E i \in Inv : Shutdown(i)
    \/ \E i \in Inv, outT, outL \in {"ok", "notOk", "none"} :
          ShutdownSettles(i, outT, outL)
    \/ \E i \in Inv :
          flushing[i].state # "shutting" /\ HandlerSettles(i, "returns")
    \/ \E i \in Inv, outT, outL \in {"ok", "notOk", "none"} :
          FlushSettles(i, outT, outL)

SpecLifecycle == AdapterInit /\ [][LifecycleNext]_vars

\* The step is the end of invocation i's shutdown().
ShutdownOver(i) ==
    /\ flushing'[i].fn = "shutdown"
    /\ flushing'[i].state = "resolved"
    /\ flushing[i].state # "resolved"

\* The step is the end of a flush() of invocation i, or a clear().
FlushOver(i) ==
    /\ flushing[i].fn = "flush"
    /\ flushing[i].state = "exporting"
    /\ flushing'[i].state # "exporting"
ClearCalled ==
    removed' # removed /\ flushing' = flushing /\ inv' = inv

\* C36: clear() and flush() leave both buffers empty and both collectors
\* registered; the collectors are unregistered by shutdown() only, at the
\* end of its flush; while none is registered, no span and no log entry is
\* collected.
C36_OnlyShutdownUnregisters ==
    [][/\ \A i \in Inv :
            (FlushOver(i) \/ ClearCalled)
            => /\ activeSpanProcessor' = activeSpanProcessor
               /\ logs'.handler = logs.handler
               /\ logs'.buf = <<>>
               /\ \A p \in {activeSpanProcessor, flushing[i].processor} \ {0} :
                     ClearCalled \/ p = flushing[i].processor
                     => procSpans'[p] = <<>>
       /\ ((activeSpanProcessor # 0 /\ activeSpanProcessor' = 0)
             \/ (logs.handler /\ ~logs'.handler))
            => \E i \in Inv :
                  /\ ShutdownOver(i)
                  /\ activeSpanProcessor' = 0 /\ ~logs'.handler
                  /\ logs'.buf = <<>>
                  /\ procSpans'[activeSpanProcessor] = <<>>
       /\ (activeSpanProcessor = 0 /\ activeSpanProcessor' = 0)
            => procSpans' = procSpans
       /\ (~logs.handler /\ ~logs'.handler) => logs'.buf = logs.buf]_vars

C36_CollectedAgainAfterShutdown ==
    \E i, j \in Inv :
        /\ i # j
        /\ inv[i].phase = "exited"
        /\ inv[i].span \notin Collected
        /\ \A r \in removed : ~(r.kind = "span" /\ r.item = inv[i].span)
        /\ spans[inv[i].span].ended
        /\ inv[j].phase = "handler"
        /\ activeSpanProcessor = 2
        /\ procSpans[2] # <<>>

\* ------------------------------------------------- the end time of a span

\* The timestamps end() may be given, by form and value in milliseconds,
\* and the readings of the clock.
Clock == 0..MaxTime
EndTimeInputs ==
    {NoTime} \cup [form : {"number", "date", "hrtime"}, ms : Clock]

\* A span started at clock reading 0 that is about to be ended.
EndInit ==
    /\ Quiescent
    /\ \E t \in EndTimeInputs, c \in Clock :
          applied = [fn |-> "end", time |-> t, clock |-> c, ends |-> 0,
                     again |-> NoTime,
                     span |-> CloudflareSpan("op", 1, 1, INTERNAL, 0, 0, "A")]

\* span.end(time) is called for the first time, at the clock reading drawn.
ApplyEnd ==
    /\ applied.fn = "end"
    /\ applied.ends = 0
    /\ applied' = [applied EXCEPT
                     !.ends = 1,
                     !.span = endSpan(@, applied.time, applied.clock)]
    /\ UNCHANGED <<spanVars, tracerVars, workflowVars, adapterVars, configVars,
                   fetchVars, wrapVars>>

\* span.end(t) is called once more, with any timestamp, at a later reading.
ApplyEndAgain(t) ==
    /\ applied.fn = "end"
    /\ applied.ends = 1
    /\ applied' = [applied EXCEPT
                     !.ends = 2, !.again = t,
                     !.span = endSpan(@, t, MaxTime)]
    /\ UNCHANGED <<spanVars, tracerVars, workflowVars, adapterVars, configVars,
                   fetchVars, wrapVars>>

EndNext == ApplyEnd \/ \E t \in EndTimeInputs : ApplyEndAgain(t)

SpecEnd == EndInit /\ [][EndNext]_vars

\* C37: once a span has been ended, its endTime is the timestamp its first
\* end() was given, in milliseconds, whichever form it had: a number, a
\* Date or an HrTime pair; without a timestamp it is the clock reading of
\* that call.
C37_EndTimeIsTimestampGiven ==
    (applied.fn = "end" /\ applied.ends > 0)
    => /\ applied.span.ended
       /\ applied.span.endTime = (IF applied.time.form = "undefined"
                                    THEN applied.clock ELSE applied.time.ms)

\* The same, for the forms end() tests for.
C37_EndTimeBarHrTime ==
    (applied.fn = "end" /\ applied.ends > 0 /\ applied.time.form # "hrtime")
    => /\ applied.span.ended
       /\ applied.span.endTime = (IF applied.time.form = "undefined"
                                    THEN applied.clock ELSE applied.time.ms)

\* ---------------------------------------------------------------------
\* Streamed bodies read chunk by chunk
\* ---------------------------------------------------------------------

\* The cap on a captured body, and the length of the mark "...[truncated]".
MAX_BODY_LOG_SIZE == 8192
TruncationMarkLength == 14

\* A streamed body is the sequence of the lengths of the texts its reader
\* delivers, one per read(); the decoder appends each to the result.
MaxChunks == 3
ChunkLengths == {1, 4096, 8191, 8192, 8193}
RECURSIVE ChunkedBodies(_)
ChunkedBodies(n) ==
    IF n = 0 THEN {<<>>}
    ELSE LET shorter == ChunkedBodies(n - 1)
         IN  shorter \cup {Append(b, c) : b \in {x \in shorter : Len(x) = n - 1},
                                          c \in ChunkLengths}

RECURSIVE BodyLength(_)
BodyLength(chunks) ==
    IF chunks = <<>> THEN 0 ELSE Head(chunks) + BodyLength(Tail(chunks))

\* while (result.length < MAX) { read(); if (done) break; result += chunk }
\* with the loop tested before every read.
RECURSIVE ReadWhileBelow(_, _)
ReadWhileBelow(chunks, result) ==
    IF result >= MAX_BODY_LOG_SIZE \/ chunks = <<>> THEN result
    ELSE ReadWhileBelow(Tail(chunks), result + Head(chunks))

\* if (result.length > MAX) result = result.slice(0, MAX) + "...[truncated]":
\* the text kept is the first `chars` characters of the body, marked or not.
TruncateRead(result) ==
    IF result > MAX_BODY_LOG_SIZE
      THEN [chars |-> MAX_BODY_LOG_SIZE, marked |-> TRUE]
      ELSE [chars |-> result, marked |-> FALSE]

\* The three copies of the loop: readBodyWithTruncate, the ReadableStream
\* branch of captureBody, and captureResponseBody.
StreamReaders == {"readBodyWithTruncate", "captureBody", "captureResponseBody"}

CaptureStream(reader, chunks) == TruncateRead(ReadWhileBelow(chunks, 0))

TextLength(text) ==
    text.chars + (IF text.marked THEN TruncationMarkLength ELSE 0)

NoText == [chars |-> 0, marked |-> FALSE]

StreamInit ==
    /\ Quiescent
    /\ \E reader \in StreamReaders, chunks \in ChunkedBodies(MaxChunks) :
          applied = [fn |-> reader, chunks |-> chunks, stage |-> "arrived",
                     text |-> NoText]

\* The capture reads the tee'd branch of a body of an allow-listed type.
ReadStream ==
    /\ applied.fn \in StreamReaders
    /\ applied.stage = "arrived"
    /\ applied' = [applied EXCEPT
                     !.stage = "captured",
                     !.text = CaptureStream(applied.fn, applied.chunks)]
    /\ UNCHANGED <<spanVars, tracerVars, workflowVars, adapterVars, configVars,
                   fetchVars, wrapVars>>

StreamNext == ReadStream

SpecStream == StreamInit /\ [][StreamNext]_vars

StreamCaptured == applied.fn \in StreamReaders /\ applied.stage = "captured"

\* C38: however a streamed body is split into chunks, the captured text is
\* the whole body when the body is no longer than the cap, and otherwise
\* the first cap characters followed by the mark; it is never longer than
\* the cap plus the mark.
C38_CapturedTextWholeOrMarked ==
    StreamCaptured
    => /\ IF BodyLength(applied.chunks) <= MAX_BODY_LOG_SIZE
            THEN applied.text = [chars |-> BodyLength(applied.chunks),
                                 marked |-> FALSE]
            ELSE applied.text = [chars |-> MAX_BODY_LOG_SIZE, marked |-> TRUE]
       /\ TextLength(applied.text) <= MAX_BODY_LOG_SIZE + TruncationMarkLength

\* The part that holds for every split: the text is a prefix of the body of
\* at most cap characters, marked only when the body is longer than the cap,
\* and whole when the body is no longer than the cap.
C38_CapturedTextWithinCap ==
    StreamCaptured
    => /\ applied.text.chars <= MAX_BODY_LOG_SIZE
       /\ applied.text.chars <= BodyLength(applied.chunks)
       /\ applied.text.marked => BodyLength(applied.chunks) > MAX_BODY_LOG_SIZE
       /\ BodyLength(applied.chunks) <= MAX_BODY_LOG_SIZE
            => applied.text.chars = BodyLength(applied.chunks)
       /\ TextLength(applied.text) <= MAX_BODY_LOG_SIZE + TruncationMarkLength

\* A body longer than the cap whose chunks add up to the cap exactly at a
\* chunk boundary has been captured.
C38_CapMetAtChunkBoundary ==
    /\ StreamCaptured
    /\ BodyLength(applied.chunks) > MAX_BODY_LOG_SIZE
    /\ \E n \in 1..Len(applied.chunks) :
          BodyLength(SubSeq(applied.chunks, 1, n)) = MAX_BODY_LOG_SIZE

\* ---------------------------------------------------------------------
\* Timestamps of the log records of one export request
\* ---------------------------------------------------------------------

\* BigInt.prototype.toString(): the decimal digits of a non-negative integer,
\* and the number a backend reads them as.
RECURSIVE DecimalString(_)
DecimalString(n) ==
    IF n < 10 THEN <<n>> ELSE Append(DecimalString(n \div 10), n % 10)

RECURSIVE NumberOf(_)
NumberOf(digits) ==
    IF Len(digits) = 1 THEN digits[1]
    ELSE 10 * NumberOf(SubSeq(digits, 1, Len(digits) - 1)) + digits[Len(digits)]

\* msToNanoStringWithOffset(ms, offsetMicros): Date.getTime() is integral, so
\* Math.floor(ms) is ms (a variant: the offset is left out).
msToNanoStringWithOffset_NoOffset(ms, offsetMicros) ==
    DecimalString(ms * 1000000)

msToNanoStringWithOffset(ms, offsetMicros) ==
    DecimalString(ms * 1000000 + offsetMicros * 1000)

\* logToOTLP(entry, offsetMicros), as to the timestamp.
logToOTLP(entry, offsetMicros) ==
    [timeUnixNano |-> msToNanoStringWithOffset(entry.timestamp, offsetMicros),
     body |-> entry.message]

\* buildLogExportRequest(logs, ...): logs.map((log, index) => logToOTLP(log,
\* index)), the index counted from 0.
buildLogExportRequest(batch) ==
    [i \in 1..Len(batch) |-> logToOTLP(batch[i], i - 1)]

\* A batch: log entries in emission order, each with the reading of the
\* clock at its emission; the message is its position.
MaxBatch == 4
RECURSIVE Readings(_)
Readings(n) ==
    IF n = 0 THEN {<<>>}
    ELSE LET shorter == Readings(n - 1)
         IN  shorter \cup {Append(b, t) : b \in {x \in shorter : Len(x) = n - 1},
                                          t \in 0..MaxTime}

BatchOf(readings) ==
    [i \in 1..Len(readings) |-> [timestamp |-> readings[i], message |-> i]]

LogTimeInit ==
    /\ Quiescent
    /\ \E readings \in Readings(MaxBatch) :
          applied = [fn |-> "buildLogExportRequest", batch |-> BatchOf(readings),
                     stage |-> "buffered", logRecords |-> <<>>]

BuildLogExport ==
    /\ applied.fn = "buildLogExportRequest"
    /\ applied.stage = "buffered"
    /\ applied' = [applied EXCEPT
                     !.stage = "built",
                     !.logRecords = buildLogExportRequest(applied.batch)]
    /\ UNCHANGED <<spanVars, tracerVars, workflowVars, adapterVars, configVars,
                   fetchVars, wrapVars>>

LogTimeNext == BuildLogExport

SpecLogTime == LogTimeInit /\ [][LogTimeNext]_vars

LogExportBuilt == applied.fn = "buildLogExportRequest" /\ applied.stage = "built"

NonDecreasing(batch) ==
    \A i, j \in 1..Len(batch) : i < j => batch[i].timestamp <= batch[j].timestamp

\* C39: in one log export request the record at index i carries
\* ms * 1,000,000 + i * 1000 nanoseconds; records of entries with the same
\* millisecond have strictly increasing timeUnixNano in emission order, and
\* so have all records of a batch emitted with non-decreasing timestamps.
C39_LogTimesStrictlyIncreasing ==
    LogExportBuilt
    => LET batch == applied.batch
           nanos(i) == NumberOf(applied.logRecords[i].timeUnixNano)
       IN  /\ Len(applied.logRecords) = Len(batch)
           /\ \A i \in 1..Len(batch) :
                 /\ applied.logRecords[i].body = batch[i].message
                 /\ nanos(i) = batch[i].timestamp * 1000000 + (i - 1) * 1000
           /\ \A i, j \in 1..Len(batch) :
                 (i < j /\ batch[i].timestamp = batch[j].timestamp)
                 => nanos(i) < nanos(j)
           /\ NonDecreasing(batch)
                 => \A i, j \in 1..Len(batch) : i < j => nanos(i) < nanos(j)

\* A request has been built from a batch in which two entries share a
\* millisecond and a later one does not.
C39_BatchWithSharedMillisecond ==
    /\ LogExportBuilt
    /\ NonDecreasing(applied.batch)
    /\ Len(applied.batch) = MaxBatch
    /\ applied.batch[1].timestamp = applied.batch[2].timestamp
    /\ applied.batch[2].timestamp < applied.batch[MaxBatch].timestamp

\* ---------------------------------------------------------------------
\* The request tracedFetch hands to the base fetch
\* ---------------------------------------------------------------------

\* Headers are sets of <<name, value>> pairs, one per name.
CallerHeaderSets ==
    {{}, {<<"accept", "caller">>}, {<<"content-type", "caller">>},
     {<<"accept", "caller">>, <<"traceparent", "caller">>},
     {<<"accept", "caller">>, <<"content-type", "caller">>}}

HeaderNames(headers) == {h[1] : h \in headers}

\* headers.set(name, value)
SetHeader(headers, name, value) ==
    {h \in headers : h[1] # name} \cup {<<name, value>>}

\* The input of a fetch call: a URL string, a URL object, or a Request with
\* its own method, headers and body.
FetchInputs ==
    {[form |-> f, method |-> "GET", headers |-> {}, body |-> NullBody] :
        f \in {"string", "URL"}}
    \cup {[form |-> "Request", method |-> m, headers |-> h, body |-> b] :
            m \in {"GET", "POST"}, h \in CallerHeaderSets,
            b \in {NullBody, BodyOf("stream", "short")}}

\* The init of a fetch call: undefined, or an object in which method, headers
\* and body are each given or not.
NoInit == [given |-> FALSE, method |-> "", hasHeaders |-> FALSE, headers |-> {},
           body |-> NullBody]
FetchInits ==
    {NoInit}
    \cup {[given |-> TRUE, method |-> m, hasHeaders |-> hh, headers |-> h,
           body |-> b] :
            m \in {"", "GET", "POST"}, hh \in BOOLEAN, h \in CallerHeaderSets,
            b \in {NullBody, BodyOf("string", "short"), BodyOf("stream", "long")}}

\* new Request(input, init) of the Fetch standard, which fetch(input, init)
\* sends: a member of init, when given, replaces that of a Request input; a
\* null or undefined init.body leaves the input's body.
RequestOf(input, init) ==
    [method |-> IF init.method # "" THEN init.method ELSE input.method,
     headers |-> IF init.hasHeaders THEN init.headers ELSE input.headers,
     body |-> IF init.body.has THEN init.body ELSE input.body]

\* A GET request with a body is a TypeError of the Request constructor.
ValidFetchCall(input, init) ==
    /\ init.hasHeaders \/ init.headers = {}
    /\ LET r == RequestOf(input, init)
       IN  r.body.has => r.method # "GET"

\* The call of tracedFetch (skipTracing apart): headers = new
\* Headers(init?.headers) with traceparent set, the body captureBody returns,
\* and baseFetch(input, {...init, headers, body: newBody}).
TracedFetchCall(input, init) ==
    LET headers == SetHeader(init.headers, "traceparent", "injected")
        captured == captureBody(init.body, "content-type" \in HeaderNames(headers))
    IN  [input |-> input,
         init |-> [given |-> TRUE, method |-> init.method, hasHeaders |-> TRUE,
                   headers |-> headers, body |-> captured.stream]]

FetchCallInit ==
    /\ Quiescent
    /\ \E input \in FetchInputs, init \in FetchInits :
          /\ ValidFetchCall(input, init)
          /\ applied = [fn |-> "tracedFetch", input |-> input, init |-> init,
                        stage |-> "called",
                        received |-> RequestOf(input, NoInit)]

\* tracedFetch(baseFetch)(input, init) reaches its call of baseFetch.
CallBaseFetch ==
    /\ applied.fn = "tracedFetch"
    /\ applied.stage = "called"
    /\ LET call == TracedFetchCall(applied.input, applied.init)
       IN  applied' = [applied EXCEPT
                         !.stage = "fetched",
                         !.received = RequestOf(call.input, call.init)]
    /\ UNCHANGED <<spanVars, tracerVars, workflowVars, adapterVars, configVars,
                   fetchVars, wrapVars>>

FetchCallNext == CallBaseFetch

SpecFetchCall == FetchCallInit /\ [][FetchCallNext]_vars

BaseFetchCalled == applied.fn = "tracedFetch" /\ applied.stage = "fetched"

OtherThanTraceparent(headers) == {h \in headers : h[1] # "traceparent"}

\* C40: for every form of input, with or without init, the base fetch
\* receives the method, the body content and every header other than
\* traceparent of the request the caller gave, and the injected traceparent.
C40_RequestReachesBaseFetchUnchanged ==
    BaseFetchCalled
    => LET given == RequestOf(applied.input, applied.init)
       IN  /\ applied.received.method = given.method
           /\ ReadBody(applied.received.body) = ReadBody(given.body)
           /\ OtherThanTraceparent(applied.received.headers)
                = OtherThanTraceparent(given.headers)
           /\ <<"traceparent", "injected">> \in applied.received.headers

\* The same, for the calls whose headers are given in init or whose input
\* carries none.
C40_UnchangedWhenHeadersInInit ==
    (BaseFetchCalled /\ (applied.init.hasHeaders \/ applied.input.headers = {}))
    => LET given == RequestOf(applied.input, applied.init)
       IN  /\ applied.received.method = given.method
           /\ ReadBody(applied.received.body) = ReadBody(given.body)
           /\ OtherThanTraceparent(applied.received.headers)
                = OtherThanTraceparent(given.headers)
           /\ <<"traceparent", "injected">> \in applied.received.headers

\* A Request with headers of its own has been fetched without init.
C40_RequestWithOwnHeaders ==
    /\ BaseFetchCalled
    /\ applied.input.form = "Request"
    /\ ~applied.init.given
    /\ OtherThanTraceparent(applied.input.headers) # {}

====
